---- MODULE Spec2Model ----
(***************************************************************************)
(* Identity-management service: password hashing, Aadhaar encryption,      *)
(* JWT issuance / verification, and the register / login / profile         *)
(* handlers built on them.                                                 *)
(*                                                                         *)
(* Results of calls are records: [ok |-> TRUE, value |-> ...] for a return *)
(* and [ok |-> FALSE, name |-> ..., error |-> ...] for a thrown error.     *)
(***************************************************************************)
EXTENDS Integers, Sequences, FiniteSets, Bags, TLC

VARIABLES
    aesKey,      \* process.env.AES_SECRET_KEY (a string; <<>> when not set)
    jwtExpiresIn, \* process.env.JWT_EXPIRES_IN (a string; undefined when not set)
    loaded,      \* cipher: the copy of utils/encryption.js in use, and what
                 \*         requiring it gave
    text,        \* cipher: the plaintext handed to encrypt
    encrypted,   \* cipher: result of encrypt(text)
    decrypted,   \* cipher: result of decrypt(encrypted.value)
    password,    \* hasher: the password handed to hashPassword
    hashed,      \* hasher: result of hashPassword(password)
    candidate,   \* hasher: the password handed to comparePassword
    compared,    \* hasher: result of comparePassword(candidate, hashed.value)
    now,         \* Date.now(), in milliseconds since the process started
    ticks,       \* how many times the clock has advanced
    issued,      \* tokens: how the token under test was made, and the result
    verified,    \* tokens: the latest verifyToken call on it (time, result)
    seen,        \* tokens: the kinds of verifyToken outcomes so far
    decodedToken, \* tokens: the latest decodeToken call (argument, result)
    client,      \* browser: the token in localStorage (null when none), and
                 \*          whether logout() has been called; with AuthContext,
                 \*          localStorage and AuthContext's user and error
    users,       \* service: the users collection
    pending,     \* service: the bag of register requests between findOne and save
    response     \* service: the latest request handled and what was replied

cipherVars == <<loaded, text, encrypted, decrypted>>
hashVars == <<password, hashed, candidate, compared>>
clockVars == <<now, ticks>>
tokenVars == <<issued, verified, seen, decodedToken, client>>
systemVars == <<users, pending, response>>
vars == <<aesKey, jwtExpiresIn, loaded, text, encrypted, decrypted, password, hashed, candidate, compared,
          now, ticks, issued, verified, seen, decodedToken, client, users, pending, response>>

-----------------------------------------------------------------------------
(* Bounds *)

MaxTextLen == 3     \* longest plaintext handed to encrypt
NumIVs == 2         \* distinct values crypto.randomBytes(16) may return
NumSalts == 2       \* distinct salts bcrypt may draw
MaxTicks == 4       \* clock advances in one behaviour
MaxUsers == 2       \* documents the users collection may hold
MaxInFlight == 2    \* register requests handled at the same time

-----------------------------------------------------------------------------
(* Generic helpers *)

\* A call that returned v, and a call that threw an error (name, message).
\* A message is a sequence of text fragments (template-literal parts).
Ok(v) == [ok |-> TRUE, value |-> v]
Throw(name, msg) == [ok |-> FALSE, name |-> name, error |-> msg]
Err(msg) == Throw("Error", msg)
NotCalled == [ok |-> FALSE, name |-> "none", error |-> <<>>]

Rep(c, n) == [i \in 1..n |-> c]

SeqsUpTo(elems, n) == UNION {[1..k -> elems] : k \in 0..n}

RECURSIVE Flatten(_)
Flatten(ss) ==
    IF Len(ss) = 0 THEN <<>>
    ELSE IF Len(ss) = 1 THEN ss[1]
    ELSE LET h == Len(ss) \div 2
         IN Flatten(SubSeq(ss, 1, h)) \o Flatten(SubSeq(ss, h + 1, Len(ss)))

-----------------------------------------------------------------------------
(* JavaScript strings.  A string is a sequence of pieces: a character        *)
(* [t |-> "c", v |-> ch], or an opaque run of characters that some encoder   *)
(* produced (the base64 text of a buffer, a bcrypt digest, a JWT segment),   *)
(* which carries what was encoded under a field name of its own.             *)

RawChar(ch) == [t |-> "c", v |-> ch]
Str(chars) == [i \in 1..Len(chars) |-> RawChar(chars[i])]

Whitespace == {RawChar(" ")}

\* null and undefined, where a string is expected, and the `!x` test on them
NullValue == <<[t |-> "null"]>>
Undefined == <<[t |-> "undefined"]>>
Falsy(x) == x \in {<<>>, NullValue, Undefined}

\* String.prototype.trim
RECURSIVE TrimLeft(_)
TrimLeft(s) ==
    IF s # <<>> /\ Head(s) \in Whitespace THEN TrimLeft(Tail(s)) ELSE s

RECURSIVE TrimRight(_)
TrimRight(s) ==
    IF s # <<>> /\ s[Len(s)] \in Whitespace
    THEN TrimRight(SubSeq(s, 1, Len(s) - 1))
    ELSE s

Trim(s) == TrimRight(TrimLeft(s))

\* String.prototype.toLowerCase
LowerChar(p) ==
    IF p.t # "c" THEN p
    ELSE CASE p.v = "A" -> RawChar("a")
           [] p.v = "B" -> RawChar("b")
           [] OTHER -> p

ToLowerCase(s) == [i \in 1..Len(s) |-> LowerChar(s[i])]

\* String.prototype.split(sep) for a one-character separator
RECURSIVE Split(_, _)
Split(s, sep) ==
    LET at == {k \in 1..Len(s) : s[k] = sep} IN
    IF at = {} THEN <<s>>
    ELSE LET i == CHOOSE k \in at : \A j \in at : k <= j
         IN <<SubSeq(s, 1, i - 1)>> \o Split(SubSeq(s, i + 1, Len(s)), sep)

-----------------------------------------------------------------------------
(* UTF-8, as Buffer.from(string, 'utf8') and buffer.toString('utf8') do it:  *)
(* an unpaired surrogate has no encoding and is written as U+FFFD.  A        *)
(* buffer of bytes is a sequence of [t |-> "byte", v |-> name].              *)

LoneSurrogate == "uD800"
ReplacementChar == "uFFFD"
EAcute == "uE9"

Byte(b) == [t |-> "byte", v |-> b]
Bytes(bs) == [i \in 1..Len(bs) |-> Byte(bs[i])]

Utf8Char(p) ==
    IF p.t # "c" THEN <<p>>
    ELSE CASE p.v = EAcute -> Bytes(<<"xC3", "xA9">>)
           [] p.v = ReplacementChar -> Bytes(<<"xEF", "xBF", "xBD">>)
           [] p.v = LoneSurrogate -> Bytes(<<"xEF", "xBF", "xBD">>)
           [] OTHER -> <<Byte(p.v)>>

Utf8Encode(s) ==
    IF \A i \in 1..Len(s) : s[i].t = "c" => s[i].v \notin {EAcute, ReplacementChar, LoneSurrogate}
    THEN [i \in 1..Len(s) |-> Utf8Char(s[i])[1]]     \* one byte each
    ELSE Flatten([i \in 1..Len(s) |-> Utf8Char(s[i])])

RECURSIVE Utf8Decode(_)
Utf8Decode(b) ==
    IF b = <<>> THEN <<>>
    ELSE IF Head(b).t # "byte"
         THEN <<Head(b)>> \o Utf8Decode(Tail(b))
    ELSE IF Len(b) >= 2 /\ SubSeq(b, 1, 2) = Bytes(<<"xC3", "xA9">>)
         THEN <<RawChar(EAcute)>> \o Utf8Decode(SubSeq(b, 3, Len(b)))
    ELSE IF Len(b) >= 3 /\ SubSeq(b, 1, 3) = Bytes(<<"xEF", "xBF", "xBD">>)
         THEN <<RawChar(ReplacementChar)>> \o Utf8Decode(SubSeq(b, 4, Len(b)))
    ELSE IF Head(b).v \in {"xC3", "xA9", "xEF", "xBF", "xBD", "xFF"}
         THEN <<RawChar(ReplacementChar)>> \o Utf8Decode(Tail(b))
    ELSE <<RawChar(Head(b).v)>> \o Utf8Decode(Tail(b))

-----------------------------------------------------------------------------
(* base64 *)

\* buffer.toString('base64'): a run of base64 digits, none of them ':'
Base64Encode(buf) == <<[t |-> "b64", buf |-> buf]>>

\* Buffer.from(str, 'base64'): lenient, never throws
Base64Decode(s) ==
    IF Len(s) = 1 /\ s[1].t = "b64" THEN s[1].buf
    ELSE [kind |-> "decoded", of |-> s, len |-> (3 * Len(s)) \div 4]

-----------------------------------------------------------------------------
(* AES-256-CBC (node crypto).  The cipher is symbolic: a ciphertext names    *)
(* the key, IV and plaintext it was made from, and only deciphering with     *)
(* that key and IV gives the plaintext back.                                 *)

KeyLength == 32
IVLength == 16
BlockSize == 16

Colon == RawChar(":")

\* crypto.randomBytes(16)
RandomIVs == {[kind |-> "random", n |-> i, len |-> IVLength] : i \in 1..NumIVs}

\* crypto.createCipheriv(ALGORITHM, key, iv); cipher.update(..) + cipher.final(..)
Cipheriv(keyBuf, iv, plain) ==
    IF Len(keyBuf) # KeyLength THEN Throw("RangeError", <<"Invalid key length">>)
    ELSE IF iv.len # IVLength
         THEN Throw("TypeError", <<"Invalid initialization vector">>)
    ELSE Ok([kind |-> "aes-256-cbc", key |-> keyBuf, iv |-> iv, plain |-> plain,
             len |-> BlockSize * ((Len(plain) \div BlockSize) + 1)])

\* Bytes that come out of deciphering with the wrong key or IV, or of
\* deciphering bytes that are no ciphertext
Garbage == Bytes(<<"xFF">>)

\* crypto.createDecipheriv(ALGORITHM, key, iv); decipher.update(..) + final(..):
\* the set of outcomes
Decipheriv(keyBuf, iv, ct) ==
    IF Len(keyBuf) # KeyLength THEN {Throw("RangeError", <<"Invalid key length">>)}
    ELSE IF iv.len # IVLength
         THEN {Throw("TypeError", <<"Invalid initialization vector">>)}
    ELSE IF ct.kind = "aes-256-cbc" /\ ct.key = keyBuf /\ ct.iv = iv
         THEN {Ok(ct.plain)}
    ELSE IF ct.len = 0 \/ ct.len % BlockSize # 0
         THEN {Err(<<"wrong final block length">>)}
    ELSE {Err(<<"bad decrypt">>), Ok(Garbage)}

\* getEncryptionKey, reading process.env.AES_SECRET_KEY
getEncryptionKey(envKey) ==
    IF envKey = <<>>
    THEN Err(<<"AES_SECRET_KEY is not defined in environment variables">>)
    ELSE IF Len(envKey) # KeyLength
         THEN Err(<<"AES_SECRET_KEY must be exactly 32 characters long for AES-256. ",
                    "Current length: ">>)
    ELSE Ok(envKey)

\* encrypt with the text trimmed before it is enciphered
encrypt_Trimmed(txt, iv, envKey) ==
    LET body ==
            IF Falsy(txt) \/ Len(Trim(txt)) = 0
            THEN Err(<<"Text to encrypt cannot be empty">>)
            ELSE LET k == getEncryptionKey(envKey) IN
                 IF ~k.ok THEN k
                 ELSE LET c == Cipheriv(Utf8Encode(k.value), iv, Utf8Encode(Trim(txt))) IN
                      IF ~c.ok THEN c
                      ELSE Ok(Base64Encode(iv) \o <<Colon>> \o Base64Encode(c.value))
    IN IF body.ok THEN body ELSE Err(<<"Encryption failed: ">> \o body.error)

\* encrypt with one initialization vector for every call
encrypt_FixedIV(txt, iv, envKey) ==
    LET body ==
            IF Falsy(txt) \/ Len(Trim(txt)) = 0
            THEN Err(<<"Text to encrypt cannot be empty">>)
            ELSE LET k == getEncryptionKey(envKey)
                     fixed == CHOOSE x \in RandomIVs : TRUE
                 IN IF ~k.ok THEN k
                    ELSE LET c == Cipheriv(Utf8Encode(k.value), fixed, Utf8Encode(txt)) IN
                         IF ~c.ok THEN c
                         ELSE Ok(Base64Encode(fixed) \o <<Colon>> \o Base64Encode(c.value))
    IN IF body.ok THEN body ELSE Err(<<"Encryption failed: ">> \o body.error)

\* encrypt(text), with iv the value crypto.randomBytes(16) returns
encrypt(txt, iv, envKey) ==
    LET body ==
            IF Falsy(txt) \/ Len(Trim(txt)) = 0
            THEN Err(<<"Text to encrypt cannot be empty">>)
            ELSE LET k == getEncryptionKey(envKey) IN
                 IF ~k.ok THEN k
                 ELSE LET c == Cipheriv(Utf8Encode(k.value), iv, Utf8Encode(txt)) IN
                      IF ~c.ok THEN c
                      ELSE Ok(Base64Encode(iv) \o <<Colon>> \o Base64Encode(c.value))
    IN IF body.ok THEN body ELSE Err(<<"Encryption failed: ">> \o body.error)

\* decrypt when it takes the first two parts of any input with a ':' in it
decrypt_FirstTwoParts(encryptedData, envKey) ==
    LET fail(r) == Err(<<"Decryption failed: ">> \o r.error)
        k == getEncryptionKey(envKey)
        parts == Split(encryptedData, Colon)
    IN IF Falsy(encryptedData)
       THEN {fail(Err(<<"Encrypted data cannot be empty">>))}
       ELSE IF ~k.ok THEN {fail(k)}
       ELSE IF Len(parts) < 2
            THEN {fail(Err(<<"Invalid encrypted data format. Expected format: iv:encryptedData">>))}
       ELSE {IF r.ok THEN Ok(Utf8Decode(r.value)) ELSE fail(r) :
                r \in Decipheriv(Utf8Encode(k.value), Base64Decode(parts[1]),
                                 Base64Decode(parts[2]))}

\* decrypt(encryptedData): the set of outcomes
decrypt(encryptedData, envKey) ==
    LET fail(r) == Err(<<"Decryption failed: ">> \o r.error)
        k == getEncryptionKey(envKey)
        parts == Split(encryptedData, Colon)
    IN IF Falsy(encryptedData)
       THEN {fail(Err(<<"Encrypted data cannot be empty">>))}
       ELSE IF ~k.ok THEN {fail(k)}
       ELSE IF Len(parts) # 2
            THEN {fail(Err(<<"Invalid encrypted data format. Expected format: iv:encryptedData">>))}
       ELSE {IF r.ok THEN Ok(Utf8Decode(r.value)) ELSE fail(r) :
                r \in Decipheriv(Utf8Encode(k.value), Base64Decode(parts[1]),
                                 Base64Decode(parts[2]))}

-----------------------------------------------------------------------------
(* Values of process.env.AES_SECRET_KEY *)

ValidKey == Str(Rep("k", KeyLength))
AesKeys ==
    { <<>>,                                                   \* not set
      Str(Rep("k", KeyLength - 1)),                           \* too short
      ValidKey,
      Str(Rep("k", KeyLength - 1)) \o Str(<<EAcute>>) }       \* 32 chars, 33 bytes

-----------------------------------------------------------------------------
(* The cipher on its own: encrypt a text, then decrypt what came back.       *)

TextChars == {RawChar("a"), RawChar(" "), RawChar(EAcute), RawChar(LoneSurrogate)}
Texts == SeqsUpTo(TextChars, MaxTextLen)

\* the copy that reads the key on every call: requiring it checks nothing
LazyCopy == [copy |-> "lazy", result |-> Ok(<<>>)]

IdleCipher ==
    /\ loaded = LazyCopy
    /\ text = <<>>
    /\ encrypted = NotCalled
    /\ decrypted = NotCalled

IdleHash ==
    /\ password = <<>>
    /\ hashed = NotCalled
    /\ candidate = <<>>
    /\ compared = NotCalled

IdleClock ==
    /\ now = 0
    /\ ticks = 0

IdleToken ==
    /\ issued = [by |-> "none", result |-> NotCalled]
    /\ verified = [at |-> 0, result |-> NotCalled]
    /\ seen = {}
    /\ decodedToken = [token |-> <<>>, result |-> NotCalled]
    /\ client = [token |-> NullValue, loggedOut |-> FALSE]

NoResponse == [kind |-> "none"]

IdleSystem ==
    /\ users = <<>>
    /\ pending = EmptyBag
    /\ response = NoResponse

InitCipher ==
    /\ aesKey \in AesKeys
    /\ jwtExpiresIn = Undefined
    /\ loaded = LazyCopy
    /\ text \in Texts
    /\ encrypted = NotCalled
    /\ decrypted = NotCalled
    /\ IdleHash
    /\ IdleClock
    /\ IdleToken
    /\ IdleSystem

EncryptCall ==
    /\ encrypted = NotCalled
    /\ \E iv \in RandomIVs : encrypted' = encrypt(text, iv, aesKey)
    /\ UNCHANGED <<aesKey, jwtExpiresIn, systemVars, loaded, text, decrypted, hashVars, clockVars, tokenVars>>

DecryptCall ==
    /\ encrypted.ok
    /\ decrypted = NotCalled
    /\ decrypted' \in decrypt(encrypted.value, aesKey)
    /\ UNCHANGED <<aesKey, jwtExpiresIn, systemVars, loaded, text, encrypted, hashVars, clockVars, tokenVars>>

NextCipher == EncryptCall \/ DecryptCall

SpecCipher == InitCipher /\ [][NextCipher]_vars

\* A key that getEncryptionKey accepts and createCipheriv can use
KeyUsable(k) == Len(k) = KeyLength /\ Len(Utf8Encode(k)) = KeyLength

\* A string without unpaired surrogates
WellFormed(s) == \A i \in 1..Len(s) : s[i] # RawChar(LoneSurrogate)

\* C1 as stated: for every non-empty string x, decrypt(encrypt(x)) returns
\* exactly x, whichever IV encrypt chose.
C1_RoundTripEveryNonEmpty ==
    (KeyUsable(aesKey) /\ text # <<>> /\ encrypted # NotCalled)
        => /\ encrypted.ok
           /\ decrypted # NotCalled => decrypted = Ok(text)

\* C1 as amended: with a usable 32-byte key, for every string x that has a
\* character other than whitespace and no unpaired surrogate, encrypt(x)
\* succeeds and decrypt of its result returns exactly x, whichever IV was drawn.
C1_RoundTrip ==
    (KeyUsable(aesKey) /\ Len(Trim(text)) > 0 /\ WellFormed(text)
        /\ encrypted # NotCalled)
        => /\ encrypted.ok
           /\ decrypted # NotCalled => decrypted = Ok(text)

\* C1 witness: a text with inner and leading whitespace and a two-byte
\* character went through encrypt (second IV) and decrypt and came back.
C1_Witness ==
    /\ text = Str(<<" ", "a", EAcute>>)
    /\ encrypted.ok
    /\ encrypted.value[1].buf.n = 2
    /\ decrypted = Ok(text)

-----------------------------------------------------------------------------
(* bcrypt.  The digest is symbolic: it names the cost, the salt and the      *)
(* bytes of the password that bcrypt reads, which are its first 72.          *)

SALT_ROUNDS == 10
BcryptMaxBytes == 72

Salts == 1..NumSalts

BcryptKey(pw) ==
    LET b == Utf8Encode(pw)
    IN SubSeq(b, 1, IF Len(b) < BcryptMaxBytes THEN Len(b) ELSE BcryptMaxBytes)

\* bcrypt.hash(password, rounds), with salt the salt it drew
BcryptHash(pw, salt, rounds) ==
    <<[t |-> "bcrypt", cost |-> rounds, salt |-> salt, key |-> BcryptKey(pw)]>>

\* bcrypt.compare(password, hash)
BcryptCompare(pw, hash) ==
    /\ Len(hash) = 1
    /\ hash[1].t = "bcrypt"
    /\ BcryptHash(pw, hash[1].salt, hash[1].cost) = hash

\* hashPassword(password)
hashPassword(pw, salt) ==
    IF pw = <<>>
    THEN Err(<<"Password hashing failed: ", "Password cannot be empty">>)
    ELSE Ok(BcryptHash(pw, salt, SALT_ROUNDS))

\* comparePassword(password, hashedPassword)
comparePassword(pw, hashedPassword) ==
    IF pw = <<>> \/ hashedPassword = <<>>
    THEN Err(<<"Password comparison failed: ",
               "Password and hashed password are required">>)
    ELSE Ok(BcryptCompare(pw, hashedPassword))

-----------------------------------------------------------------------------
(* validateRegister: the password rules *)

MinPasswordLen == 6
MaxPasswordLen == 128

LowerLetters == {RawChar("a"), RawChar("b"), RawChar("x"), RawChar("y"), RawChar("z")}
UpperLetters == {RawChar("A"), RawChar("B")}
Digits == {RawChar("0"), RawChar("1"), RawChar("2"), RawChar("3"), RawChar("4"),
           RawChar("5"), RawChar("6"), RawChar("7"), RawChar("8"), RawChar("9")}

\* The messages of the rules that failed, in rule order
Failing(rules) ==
    LET failed == SelectSeq(rules, LAMBDA r : r[1])
    IN [i \in 1..Len(failed) |-> failed[i][2]]

\* body('password') of validateRegister
PasswordErrors(pw) ==
    Failing(<<
      <<pw = <<>>, "Password is required">>,
      <<Len(pw) < MinPasswordLen, "Password must be at least 6 characters long">>,
      <<~ /\ \E i \in 1..Len(pw) : pw[i] \in LowerLetters
          /\ \E i \in 1..Len(pw) : pw[i] \in UpperLetters
          /\ \E i \in 1..Len(pw) : pw[i] \in Digits,
        "Password must contain at least one uppercase letter, one lowercase letter, and one number">>,
      <<Len(pw) > MaxPasswordLen, "Password cannot exceed 128 characters">> >>)

PasswordAccepted(pw) == PasswordErrors(pw) = <<>>

-----------------------------------------------------------------------------
(* The hasher on its own: hash a password, then compare a candidate.         *)

Stem == Str(<<"A", "a", "1">>)
Pw72 == Stem \o Str(Rep("x", BcryptMaxBytes - 3))

Passwords ==
    { <<>>,
      Stem \o Str(<<"x", "x">>),                               \* 5: too short
      Str(<<"a", "a", "1", "x", "x", "x">>),                   \* no uppercase
      Stem \o Str(<<"x", "x", "x">>),                          \* 6
      Stem \o Str(<<"x", "x", "y">>),                          \* 6
      Stem \o Str(<<"x", "x", "x", "x">>),                     \* 7
      Pw72,                                                    \* 72
      Pw72 \o Str(<<"y">>),                                    \* 73
      Pw72 \o Str(<<"z">>),                                    \* 73
      Pw72 \o Str(Rep("y", MaxPasswordLen - BcryptMaxBytes)),  \* 128
      Pw72 \o Str(Rep("y", MaxPasswordLen - BcryptMaxBytes + 1)) }  \* 129: too long

InitHash ==
    /\ aesKey = ValidKey
    /\ jwtExpiresIn = Undefined
    /\ IdleCipher
    /\ password \in Passwords
    /\ candidate \in Passwords
    /\ hashed = NotCalled
    /\ compared = NotCalled
    /\ IdleClock
    /\ IdleToken
    /\ IdleSystem

HashCall ==
    /\ hashed = NotCalled
    /\ \E salt \in Salts : hashed' = hashPassword(password, salt)
    /\ UNCHANGED <<aesKey, jwtExpiresIn, systemVars, cipherVars, password, candidate, compared, clockVars,
                   tokenVars>>

CompareCall ==
    /\ hashed.ok
    /\ compared = NotCalled
    /\ compared' = comparePassword(candidate, hashed.value)
    /\ UNCHANGED <<aesKey, jwtExpiresIn, systemVars, cipherVars, password, candidate, hashed, clockVars,
                   tokenVars>>

NextHash == HashCall \/ CompareCall

SpecHash == InitHash /\ [][NextHash]_vars

\* C5: for every password p that registration accepts (6 to 128 characters),
\* comparePassword(p, hashPassword(p)) is true, and for every two such
\* passwords p1 # p2, comparePassword(p2, hashPassword(p1)) is false.
C5_CompareIffSamePassword ==
    (PasswordAccepted(password) /\ PasswordAccepted(candidate)
        /\ compared # NotCalled)
        => compared = Ok(candidate = password)

\* The part of C5 that the code keeps: the password that was hashed compares
\* true, and two accepted passwords that differ within their first 72 bytes
\* compare false.
HashCompareWithin72 ==
    (PasswordAccepted(password) /\ PasswordAccepted(candidate)
        /\ compared # NotCalled)
        => /\ compared.ok
           /\ candidate = password => compared.value
           /\ BcryptKey(candidate) # BcryptKey(password) => ~compared.value

-----------------------------------------------------------------------------
(* jsonwebtoken.  A token is the string header.payload.signature: two        *)
(* base64url segments that carry JSON, and a signature segment that names    *)
(* the algorithm, the secret and the segments it was computed over.          *)

JWT_SECRET == Str(<<"s", "e", "c", "r", "e", "t">>)
OtherSecret == Str(<<"o", "t", "h", "e", "r">>)
JWT_EXPIRES_IN_MS == 604800000
ISSUER == "identity-management-service"
AUDIENCE == "identity-management-client"

Dot == RawChar(".")
JwtHeader == [alg |-> "HS256", typ |-> "JWT"]
B64Url(json) == [t |-> "b64url", json |-> json]
Signature(alg, secret, header, payload) ==
    [t |-> "sig", alg |-> alg, secret |-> secret, over |-> <<header, payload>>]

JwtSerialize(header, payload, secret) ==
    <<B64Url(header), Dot, B64Url(payload), Dot,
      Signature(header.alg, secret, header, payload)>>

\* jwt.sign(payload, secret, {expiresIn, issuer, audience}) at time clock (ms)
JwtSign(payload, secret, expiresInMs, iss, aud, clock) ==
    LET iat == clock \div 1000
        full == [userId |-> payload.userId, email |-> payload.email,
                 iat |-> iat, exp |-> iat + (expiresInMs \div 1000),
                 iss |-> iss, aud |-> aud]
    IN JwtSerialize(JwtHeader, full, secret)

IsJsonSegment(part) == Len(part) = 1 /\ part[1].t = "b64url"

Null == [ok |-> FALSE, name |-> "null", error |-> <<>>]

\* jwt.decode(token): the payload, or null
JwtDecode(token) ==
    LET parts == Split(token, Dot)
    IN IF Len(parts) = 3 /\ IsJsonSegment(parts[1]) /\ IsJsonSegment(parts[2])
       THEN Ok(parts[2][1].json)
       ELSE Null

\* The expiry test with the boundary second still valid
JwtExpired_Strict(clockTimestamp, exp) == clockTimestamp > exp

\* The expiry test as an equality
JwtExpired_OnlyAtExpiry(clockTimestamp, exp) == clockTimestamp = exp

\* jwt.verify's expiry test: clockTimestamp >= payload.exp
JwtExpired(clockTimestamp, exp) == clockTimestamp >= exp

\* jwt.verify(token, secret, {issuer, audience}) at time clock (ms)
JwtVerify(token, secret, iss, aud, clock) ==
    LET parts == Split(token, Dot)
        clockTimestamp == clock \div 1000
        JWE(m) == Throw("JsonWebTokenError", m)
    IN IF token = <<>> THEN JWE(<<"jwt must be provided">>)
       ELSE IF Len(parts) # 3 THEN JWE(<<"jwt malformed">>)
       ELSE IF ~(IsJsonSegment(parts[1]) /\ IsJsonSegment(parts[2]))
            THEN JWE(<<"invalid token">>)
       ELSE LET header == parts[1][1].json
                payload == parts[2][1].json
                sig == parts[3]
            IN IF Len(Trim(sig)) = 0 THEN JWE(<<"jwt signature is required">>)
               ELSE IF header.alg \notin {"HS256", "HS384", "HS512"}
                    THEN JWE(<<"invalid algorithm">>)
               ELSE IF ~(Len(sig) = 1
                         /\ sig[1] = Signature(header.alg, secret, header, payload))
                    THEN JWE(<<"invalid signature">>)
               ELSE IF "nbf" \in DOMAIN payload /\ payload.nbf > clockTimestamp
                    THEN Throw("NotBeforeError", <<"jwt not active">>)
               ELSE IF "exp" \in DOMAIN payload /\ JwtExpired(clockTimestamp, payload.exp)
                    THEN Throw("TokenExpiredError", <<"jwt expired">>)
               ELSE IF payload.aud # aud
                    THEN JWE(<<"jwt audience invalid. expected: ", aud>>)
               ELSE IF payload.iss # iss
                    THEN JWE(<<"jwt issuer invalid. expected: ", iss>>)
               ELSE Ok(payload)

-----------------------------------------------------------------------------
(* utils/jwt.js and utils/tokenValidator.js *)

\* process.env.JWT_EXPIRES_IN || '7d'
JWT_EXPIRES_IN == IF Falsy(jwtExpiresIn) THEN Str(<<"7", "d">>) ELSE jwtExpiresIn

TimeUnits == [s |-> 1000, m |-> 60000, h |-> 3600000, d |-> 86400000]

RECURSIVE LeadingDigits(_)
LeadingDigits(s) ==
    IF s # <<>> /\ s[1] \in Digits THEN 1 + LeadingDigits(Tail(s)) ELSE 0

RECURSIVE ParseInt(_)
ParseInt(s) ==
    IF s = <<>> THEN 0
    ELSE 10 * ParseInt(SubSeq(s, 1, Len(s) - 1))
            + (CHOOSE n \in 0..9 : ToString(n) = s[Len(s)].v)

\* ms(str) as jsonwebtoken's timespan uses it: the milliseconds of '7d',
\* '1h', '30', ...; undefined (Null) for a string that is no timespan
Ms(str) ==
    LET k == LeadingDigits(str)
        unit == SubSeq(str, k + 1, Len(str))
    IN IF k = 0 THEN Null
       ELSE IF unit = <<>> THEN Ok(ParseInt(SubSeq(str, 1, k)))
       ELSE IF Len(unit) = 1 /\ unit[1].v \in DOMAIN TimeUnits
            THEN Ok(ParseInt(SubSeq(str, 1, k)) * TimeUnits[unit[1].v])
       ELSE Null

\* what jwt.sign throws when expiresIn is no timespan
ExpiresInMessage ==
    "\"expiresIn\" should be a number of seconds or string representing a timespan"

ExpiredMessage == <<"Token has expired. Please login again.">>
InvalidMessage == <<"Invalid token. Please login again.">>
NotActiveMessage == <<"Token not active yet.">>

\* generateToken without the lower-casing of the email
generateToken_KeepsCase(userId, email, clock) ==
    IF Falsy(userId) \/ Falsy(email)
    THEN Err(<<"Token generation failed: ",
               "UserId and email are required to generate token">>)
    ELSE LET span == Ms(JWT_EXPIRES_IN) IN
         IF ~span.ok THEN Err(<<"Token generation failed: ", ExpiresInMessage>>)
         ELSE Ok(JwtSign([userId |-> userId, email |-> Trim(email)],
                         JWT_SECRET, span.value, ISSUER, AUDIENCE, clock))

\* generateToken when it requires the user id only
generateToken_ChecksUserIdOnly(userId, email, clock) ==
    IF Falsy(userId)
    THEN Err(<<"Token generation failed: ",
               "UserId and email are required to generate token">>)
    ELSE LET span == Ms(JWT_EXPIRES_IN) IN
         IF ~span.ok THEN Err(<<"Token generation failed: ", ExpiresInMessage>>)
         ELSE Ok(JwtSign([userId |-> userId, email |-> Trim(ToLowerCase(email))],
                         JWT_SECRET, span.value, ISSUER, AUDIENCE, clock))

\* generateToken(userId, email) at time clock
generateToken(userId, email, clock) ==
    IF Falsy(userId) \/ Falsy(email)
    THEN Err(<<"Token generation failed: ",
               "UserId and email are required to generate token">>)
    ELSE LET span == Ms(JWT_EXPIRES_IN) IN
         IF ~span.ok THEN Err(<<"Token generation failed: ", ExpiresInMessage>>)
         ELSE Ok(JwtSign([userId |-> userId, email |-> Trim(ToLowerCase(email))],
                         JWT_SECRET, span.value, ISSUER, AUDIENCE, clock))

\* generateTestToken(userId, email, expiresIn) at time clock
generateTestToken(userId, email, expiresInMs, clock) ==
    Ok(JwtSign([userId |-> userId, email |-> Trim(ToLowerCase(email))],
               JWT_SECRET, expiresInMs, ISSUER, AUDIENCE, clock))

\* verifyToken when it also refuses a token issued more than an hour ago
verifyToken_MaxAge(token, clock) ==
    IF Falsy(token)
    THEN Err(<<"Token verification failed: ", "Token is required">>)
    ELSE LET r == JwtVerify(token, JWT_SECRET, ISSUER, AUDIENCE, clock)
         IN IF r.ok
            THEN IF clock \div 1000 >= r.value.iat + 3600 THEN Err(ExpiredMessage) ELSE r
            ELSE IF r.name = "TokenExpiredError" THEN Err(ExpiredMessage)
            ELSE IF r.name = "JsonWebTokenError" THEN Err(InvalidMessage)
            ELSE IF r.name = "NotBeforeError" THEN Err(NotActiveMessage)
            ELSE Err(<<"Token verification failed: ">> \o r.error)

\* verifyToken(token) at time clock
verifyToken(token, clock) ==
    IF Falsy(token)
    THEN Err(<<"Token verification failed: ", "Token is required">>)
    ELSE LET r == JwtVerify(token, JWT_SECRET, ISSUER, AUDIENCE, clock)
         IN IF r.ok THEN r
            ELSE IF r.name = "TokenExpiredError" THEN Err(ExpiredMessage)
            ELSE IF r.name = "JsonWebTokenError" THEN Err(InvalidMessage)
            ELSE IF r.name = "NotBeforeError" THEN Err(NotActiveMessage)
            ELSE Err(<<"Token verification failed: ">> \o r.error)

\* decodeToken(token): the payload, null, or the error it throws
decodeToken(token) ==
    IF Falsy(token)
    THEN Err(<<"Token decoding failed: ", "Token is required">>)
    ELSE JwtDecode(token)

-----------------------------------------------------------------------------
(* The token service on its own: one token is made (by generateToken, by     *)
(* generateTestToken, or by someone else), the clock advances, and           *)
(* verifyToken is called on the token at any time.                           *)

TickSteps == {1, 999, JWT_EXPIRES_IN_MS - 1000}

\* The clock stops two token lifetimes after the start, which keeps every
\* time computed from it (exp * 1000) within TLC's 32-bit integers.
ClockHorizon == 2 * JWT_EXPIRES_IN_MS

UserIdInputs == {<<>>, NullValue, Undefined, Str(<<"1">>), Str(<<"2">>)}
EmailInputs ==
    { <<>>, NullValue, Undefined,
      Str(<<"A", "@", "x">>),
      Str(<<" ", "A", "@", "x", " ">>),
      Str(<<"b", "@", "B">>),
      Str(<<" ", " ">>) }
TestLifetimes == {1000, 3600000}      \* '1s', '1h'

\* Tokens this service did not issue, made at time clock
ForeignTokens(clock) ==
    LET p == [userId |-> Str(<<"1">>), email |-> Str(<<"a", "@", "x">>)]
        good == JwtSign(p, JWT_SECRET, 1000, ISSUER, AUDIENCE, clock)
        pay == good[3].json
    IN  { JwtSign(p, sec, life, iss, aud, clock) :
            sec \in {JWT_SECRET, OtherSecret},
            life \in {1000, JWT_EXPIRES_IN_MS},
            iss \in {ISSUER, "other-service"},
            aud \in {AUDIENCE, "other-client"} }
        \cup
        { \* payload rewritten, signature kept
          <<good[1], Dot, B64Url([pay EXCEPT !.userId = Str(<<"2">>)]), Dot, good[5]>>,
          \* signature stripped
          <<good[1], Dot, good[3], Dot>>,
          \* not active before a later second
          JwtSerialize(JwtHeader, [userId |-> pay.userId, email |-> pay.email,
                                   iat |-> pay.iat, exp |-> pay.exp, iss |-> ISSUER,
                                   aud |-> AUDIENCE, nbf |-> pay.iat + 1], JWT_SECRET),
          JwtSerialize(JwtHeader, [userId |-> pay.userId, email |-> pay.email,
                                   iat |-> pay.iat, exp |-> pay.exp, iss |-> "other-service",
                                   aud |-> AUDIENCE, nbf |-> pay.iat + 1], JWT_SECRET),
          Str(<<"x", ".", "y", ".", "z">>),
          Str(<<"x", "y">>) }

OutcomeKind(r) ==
    IF r.ok THEN "valid"
    ELSE IF r.error = ExpiredMessage THEN "expired"
    ELSE IF r.error = InvalidMessage THEN "invalid"
    ELSE "other"

InitToken ==
    /\ aesKey = ValidKey
    /\ jwtExpiresIn = Undefined
    /\ IdleCipher
    /\ IdleHash
    /\ IdleClock
    /\ IdleToken
    /\ IdleSystem

TickToken ==
    /\ ticks < MaxTicks
    /\ \E d \in TickSteps : now + d <= ClockHorizon /\ now' = now + d
    /\ ticks' = ticks + 1
    /\ UNCHANGED <<aesKey, jwtExpiresIn, systemVars, cipherVars, hashVars, tokenVars>>

GenerateTokenCall ==
    /\ issued.by = "none"
    /\ \E userId \in UserIdInputs, email \in EmailInputs :
          issued' = [by |-> "generateToken", userId |-> userId, email |-> email,
                     at |-> now, result |-> generateToken(userId, email, now)]
    /\ UNCHANGED <<aesKey, jwtExpiresIn, systemVars, cipherVars, hashVars, clockVars, verified, seen,
                   decodedToken, client>>

GenerateTestTokenCall ==
    /\ issued.by = "none"
    /\ \E userId \in {x \in UserIdInputs : ~Falsy(x)},
          email \in {x \in EmailInputs : ~Falsy(x)},
          life \in TestLifetimes :
          issued' = [by |-> "generateTestToken", userId |-> userId, email |-> email,
                     at |-> now,
                     result |-> generateTestToken(userId, email, life, now)]
    /\ UNCHANGED <<aesKey, jwtExpiresIn, systemVars, cipherVars, hashVars, clockVars, verified, seen,
                   decodedToken, client>>

PresentForeignToken ==
    /\ issued.by = "none"
    /\ \E token \in ForeignTokens(now) :
          issued' = [by |-> "other", userId |-> <<>>, email |-> <<>>, at |-> now,
                     result |-> Ok(token)]
    /\ UNCHANGED <<aesKey, jwtExpiresIn, systemVars, cipherVars, hashVars, clockVars, verified, seen,
                   decodedToken, client>>

VerifyTokenCall ==
    /\ issued.result.ok
    /\ LET r == verifyToken(issued.result.value, now)
       IN /\ verified' = [at |-> now, result |-> r]
          /\ seen' = seen \cup {OutcomeKind(r)}
    /\ UNCHANGED <<aesKey, jwtExpiresIn, systemVars, cipherVars, hashVars, clockVars, issued, decodedToken,
                   client>>

\* decodeToken on the token under test, or on something that is no token
DecodeTokenCall ==
    /\ \E token \in {<<>>, NullValue, Undefined}
                    \cup (IF issued.result.ok THEN {issued.result.value} ELSE {}) :
          decodedToken' = [token |-> token, result |-> decodeToken(token)]
    /\ UNCHANGED <<aesKey, jwtExpiresIn, systemVars, cipherVars, hashVars, clockVars, issued, verified,
                   seen, client>>

NextToken ==
    \/ TickToken
    \/ GenerateTokenCall
    \/ GenerateTestTokenCall
    \/ PresentForeignToken
    \/ VerifyTokenCall
    \/ DecodeTokenCall

SpecToken == InitToken /\ [][NextToken]_vars

\* The token under test was issued by this service
IssuedHere == issued.by \in {"generateToken", "generateTestToken"} /\ issued.result.ok

\* Its claims and its expiry instant in milliseconds
IssuedClaims == issued.result.value[3].json
ExpiresAtMs == IssuedClaims.exp * 1000

VerifyCalled == verified.result # NotCalled

\* C2: verifyToken applied to a token this service issued, at any time at or
\* after the token's embedded expiry, fails with the expired-token error and
\* returns no claims; the instant now = expiresAt counts as expired.
C2_ExpiredAtOrAfterExpiry ==
    (IssuedHere /\ VerifyCalled /\ verified.at >= ExpiresAtMs)
        => verified.result = Err(ExpiredMessage)

\* C2 witness: a token from generateToken was verified exactly at its expiry
\* instant and failed as expired.
C2_Witness ==
    /\ issued.by = "generateToken"
    /\ issued.result.ok
    /\ verified.at = ExpiresAtMs
    /\ verified.result = Err(ExpiredMessage)

\* A well-formed token (no not-before claim) whose signature was made with
\* another secret, or whose issuer or audience is not this service's
ForeignToken(token) ==
    /\ JwtDecode(token).ok
    /\ Len(token) = 5
    /\ token[5].t = "sig"
    /\ "nbf" \notin DOMAIN token[3].json
    /\ \/ token[5].secret # JWT_SECRET
       \/ token[3].json.iss # ISSUER
       \/ token[3].json.aud # AUDIENCE

\* C3: verifyToken fails with the invalid-token error, never with the
\* expired-token error and never with success, for every token signed with a
\* different secret or carrying a different issuer or audience, whether or
\* not its expiry has passed.
C3_ForeignTokenIsInvalid ==
    (issued.result.ok /\ ForeignToken(issued.result.value) /\ VerifyCalled)
        => verified.result = Err(InvalidMessage)

\* The part of C3 that the code keeps: a foreign token never verifies, and one
\* signed with a different secret fails as invalid whatever its expiry.
ForeignTokenRejected ==
    (issued.result.ok /\ ForeignToken(issued.result.value) /\ VerifyCalled)
        => /\ ~verified.result.ok
           /\ issued.result.value[5].secret # JWT_SECRET
                 => verified.result = Err(InvalidMessage)

\* C4: for every non-empty id and email, verifyToken(generateToken(id, email))
\* evaluated at the instant of issuance succeeds and returns claims with
\* userId = id, email = the lower-cased trimmed email, the fixed issuer and
\* audience, and an expiry later than the issue time.
C4_VerifyAfterIssue ==
    (issued.by = "generateToken" /\ ~Falsy(issued.userId) /\ ~Falsy(issued.email))
        => /\ issued.result.ok
           /\ (VerifyCalled /\ verified.at = issued.at)
                 => /\ verified.result.ok
                    /\ LET c == verified.result.value
                       IN /\ c.userId = issued.userId
                          /\ c.email = ToLowerCase(Trim(issued.email))
                          /\ c.iss = ISSUER
                          /\ c.aud = AUDIENCE
                          /\ c.exp > c.iat
                          /\ c.exp * 1000 > issued.at

\* C4 witness: a token for an email with capitals and outer blanks was
\* verified at the instant it was issued, after the clock had moved.
C4_Witness ==
    /\ issued.by = "generateToken"
    /\ issued.email = Str(<<" ", "A", "@", "x", " ">>)
    /\ issued.at > 0
    /\ verified.at = issued.at
    /\ verified.result.ok
    /\ verified.result.value.email = Str(<<"a", "@", "x">>)

\* C6: Issued -> Valid -> Expired, Expired terminal: once verifyToken has
\* failed as expired for the token, no later verifyToken of it succeeds (the
\* clock never goes back), and verifyToken succeeds for a token this service
\* issued at every instant strictly before expiresAt.
C6_TokenLifecycle ==
    /\ (VerifyCalled /\ verified.result.ok) => "expired" \notin seen
    /\ (IssuedHere /\ VerifyCalled /\ verified.at < ExpiresAtMs)
          => verified.result.ok

\* C6 witness: the same issued token verified first as valid and, more than a
\* second after its expiry, as expired.
C6_Witness ==
    /\ IssuedHere
    /\ seen = {"valid", "expired"}
    /\ verified.at >= ExpiresAtMs + 1000
    /\ verified.result = Err(ExpiredMessage)

-----------------------------------------------------------------------------
(* express-validator rules and the Mongoose schema                           *)

\* C16: decodeToken never throws: for an input that cannot be parsed as a
\* token (the empty string, null and undefined among them) it returns null,
\* and for a well-formed token it returns the payload whether or not the
\* token is expired or signed with this service's secret.
C16_DecodeNeverThrows ==
    decodedToken.result # NotCalled =>
        IF JwtDecode(decodedToken.token).ok
        THEN decodedToken.result = Ok(decodedToken.token[3].json)
        ELSE decodedToken.result = Null

\* C17: generateToken fails and produces no token whenever the user id or
\* the email is empty (the empty string, null or undefined).
C17_GenerateRequiresBoth ==
    (issued.by = "generateToken" /\ (Falsy(issued.userId) \/ Falsy(issued.email)))
        => issued.result = Err(<<"Token generation failed: ",
                                 "UserId and email are required to generate token">>)

\* C17 witness: generateToken was called with a user id and a null email,
\* and threw.
C17_Witness ==
    /\ issued.by = "generateToken"
    /\ issued.userId = Str(<<"1">>)
    /\ issued.email = NullValue
    /\ ~issued.result.ok

Join(msgs, sep) ==
    IF msgs = <<>> THEN <<>>
    ELSE [i \in 1..(2 * Len(msgs) - 1) |->
             IF i % 2 = 1 THEN msgs[(i + 1) \div 2] ELSE sep]

AllIn(s, set) == \A i \in 1..Len(s) : s[i] \in set

Alnum == LowerLetters \cup UpperLetters \cup Digits
WordChars == Alnum \cup {RawChar("_")}

\* isEmail() of validator.js with its defaults: one '@', a dot-atom local
\* part, a fully qualified domain whose last label is two or more letters
IsEmail(s) ==
    LET parts == Split(s, RawChar("@")) IN
    /\ Len(parts) = 2
    /\ LET atoms == Split(parts[1], RawChar("."))
           labels == Split(parts[2], RawChar("."))
       IN /\ \A i \in 1..Len(atoms) :
                 /\ atoms[i] # <<>>
                 /\ AllIn(atoms[i], Alnum \cup {RawChar("+"), RawChar("-"), RawChar("_")})
          /\ Len(labels) >= 2
          /\ \A i \in 1..Len(labels) :
                 /\ labels[i] # <<>>
                 /\ AllIn(labels[i], Alnum \cup {RawChar("-")})
                 /\ Head(labels[i]) # RawChar("-")
                 /\ labels[i][Len(labels[i])] # RawChar("-")
          /\ Len(labels[Len(labels)]) >= 2
          /\ AllIn(labels[Len(labels)], LowerLetters \cup UpperLetters)

\* normalizeEmail() for a domain that is none of the special mail providers
NormalizeEmail(s) == ToLowerCase(s)

\* body('email') of validateRegister and validateLogin, on the trimmed value
EmailErrors(email) ==
    Failing(<< <<email = <<>>, "Email is required">>,
               <<~IsEmail(email), "Please provide a valid email address">> >>)

AadhaarLen == 12

\* body('aadhaar') of validateRegister, on the trimmed value
AadhaarErrors(aadhaar) ==
    Failing(<<
      <<aadhaar = <<>>, "Aadhaar number is required">>,
      <<Len(aadhaar) # AadhaarLen, "Aadhaar number must be exactly 12 digits">>,
      <<~(Len(aadhaar) = AadhaarLen /\ AllIn(aadhaar, Digits)),
        "Aadhaar number must contain only digits">>,
      <<Len(aadhaar) = AadhaarLen /\ AllIn(aadhaar, Digits)
          /\ \A i \in 1..Len(aadhaar) : aadhaar[i] = aadhaar[1],
        "Aadhaar number cannot be all the same digit">> >>)

MinNameLen == 2
MaxNameLen == 100

\* body('name') of validateRegister: skipped when the field is absent (<<>>)
NameErrors(name) ==
    IF name = <<>> THEN <<>>
    ELSE Failing(<<
      <<Len(Trim(name)) < MinNameLen \/ Len(Trim(name)) > MaxNameLen,
        "Name must be between 2 and 100 characters">>,
      <<Trim(name) = <<>>
          \/ ~AllIn(Trim(name), LowerLetters \cup UpperLetters
                                  \cup Whitespace \cup {RawChar("'"), RawChar("-")}),
        "Name can only contain letters, spaces, hyphens, and apostrophes">> >>)

\* handleValidationErrors: throw ValidationError(messages joined by ', ')
handleValidationErrors(errors, sanitized) ==
    IF errors # <<>> THEN Throw("ValidationError", Join(errors, ", "))
    ELSE Ok(sanitized)

\* validateRegister: the request body after the sanitizers, or the error
validateRegister(body) ==
    handleValidationErrors(
        EmailErrors(Trim(body.email)) \o PasswordErrors(body.password)
            \o AadhaarErrors(Trim(body.aadhaar)) \o NameErrors(body.name),
        [email |-> ToLowerCase(NormalizeEmail(Trim(body.email))),
         password |-> body.password,
         aadhaar |-> Trim(body.aadhaar),
         name |-> Trim(body.name)])

\* validateLogin
validateLogin(body) ==
    handleValidationErrors(
        EmailErrors(Trim(body.email))
            \o Failing(<< <<body.password = <<>>, "Password is required">> >>),
        [email |-> ToLowerCase(NormalizeEmail(Trim(body.email))),
         password |-> body.password])

\* A run of word characters with single '.' or '-' between them: \w+([\.-]?\w+)*
WordRun(s) ==
    /\ s # <<>>
    /\ AllIn(s, WordChars \cup {RawChar("."), RawChar("-")})
    /\ Head(s) \in WordChars
    /\ s[Len(s)] \in WordChars
    /\ \A i \in 1..(Len(s) - 1) : s[i] \in WordChars \/ s[i + 1] \in WordChars

\* The schema's match for email: /^\w+([\.-]?\w+)*@\w+([\.-]?\w+)*(\.\w{2,3})+$/
SchemaEmailMatch(s) ==
    LET parts == Split(s, RawChar("@")) IN
    /\ Len(parts) = 2
    /\ WordRun(parts[1])
    /\ WordRun(parts[2])
    /\ LET labels == Split(parts[2], RawChar("."))
       IN /\ Len(labels) >= 2
          /\ Len(labels[Len(labels)]) \in 2..3
          /\ AllIn(labels[Len(labels)], WordChars)

\* Mongoose document validation before save
SchemaErrors(doc) ==
    Failing(<<
      <<doc.email = <<>>, "email: Email is required">>,
      <<doc.email # <<>> /\ ~SchemaEmailMatch(doc.email),
        "email: Please provide a valid email address">>,
      <<doc.password = <<>>, "password: Password is required">>,
      <<doc.encryptedAadhaar = <<>>, "encryptedAadhaar: Aadhaar number is required">>,
      <<Len(doc.name) > MaxNameLen, "name: Name cannot exceed 100 characters">> >>)

-----------------------------------------------------------------------------
(* errorHandler and the error classes                                        *)

\* err.statusCode || 500: the AppError subclasses carry their status
StatusCode(err) ==
    CASE err.name = "ValidationError" -> 400
      [] err.name = "AuthenticationError" -> 401
      [] err.name = "AuthorizationError" -> 403
      [] err.name = "NotFoundError" -> 404
      [] OTHER -> 500

\* errorHandler: res.status(err.statusCode).json({success: false, message})
errorHandler(err) ==
    [status |-> StatusCode(err), body |-> [success |-> FALSE, message |-> err.error]]

-----------------------------------------------------------------------------
(* The users collection: a sequence of documents, _id = position.            *)

\* ObjectId.toString() and the cast of a string to an ObjectId (0: CastError)
IdDigits == <<"1", "2", "3", "4", "5", "6", "7", "8", "9">>
IdToString(id) == Str(<<IdDigits[id]>>)
CastObjectId(s) ==
    IF Len(s) = 1 /\ s[1].t = "c" /\ \E i \in 1..Len(IdDigits) : s[1].v = IdDigits[i]
    THEN CHOOSE i \in 1..Len(IdDigits) : s[1].v = IdDigits[i]
    ELSE 0

\* User.findOne({email}): the _id of the first match, 0 for null
findOne(coll, email) ==
    IF \E i \in 1..Len(coll) : coll[i].email = email
    THEN CHOOSE i \in 1..Len(coll) :
             coll[i].email = email /\ \A j \in 1..(i - 1) : coll[j].email # email
    ELSE 0

\* the unique index on email rejects the insert (no unique index: never)
UniqueIndexViolated_NoIndex(coll, doc) == FALSE
UniqueIndexViolated(coll, doc) == \E i \in 1..Len(coll) : coll[i].email = doc.email

DuplicateKeyMessage == "E11000 duplicate key error collection: users index: email_1"

\* userSchema.post('save', function(error, doc, next) ...)
postSaveHook(err) ==
    IF err.name = "MongoServerError" THEN Err(<<"Email already exists">>) ELSE err

\* newUser.save(): the stored document, or the error save rejects with
saveNew(coll, doc, clock) ==
    LET errs == SchemaErrors(doc) IN
    IF errs # <<>>
    THEN postSaveHook(Throw("mongoose.ValidationError",
                            <<"User validation failed: ">> \o Join(errs, ", ")))
    ELSE IF UniqueIndexViolated(coll, doc)
    THEN postSaveHook(Throw("MongoServerError", <<DuplicateKeyMessage>>))
    ELSE Ok([_id |-> Len(coll) + 1, email |-> doc.email, password |-> doc.password,
             encryptedAadhaar |-> doc.encryptedAadhaar, name |-> doc.name,
             createdAt |-> clock, updatedAt |-> clock])

\* the catch block of createUser
createUserCatch(err) ==
    IF err.name = "ValidationError" THEN err
    ELSE IF err.name = "MongoServerError"
            \/ \E i \in 1..Len(err.error) : err.error[i] = DuplicateKeyMessage
    THEN Throw("ValidationError", <<"User with this email already exists">>)
    ELSE IF err.name = "mongoose.ValidationError"
    THEN Throw("ValidationError", err.error)
    ELSE Err(<<"Failed to create user: ">> \o err.error)

\* createUser when it stores the password as submitted instead of its hash
createUserPrepare_StoresPlain(coll, userData, salt, iv, envKey) ==
    LET e == encrypt(userData.aadhaar, iv, envKey) IN
    IF findOne(coll, Trim(ToLowerCase(userData.email))) # 0
    THEN Throw("ValidationError", <<"User with this email already exists">>)
    ELSE IF ~e.ok THEN Err(<<"Failed to create user: ">> \o e.error)
    ELSE Ok([email |-> Trim(ToLowerCase(userData.email)), password |-> userData.password,
             encryptedAadhaar |-> e.value, name |-> Trim(userData.name)])

\* createUser up to `new User({...})`: the document to save, or the error
createUserPrepare(coll, userData, salt, iv, envKey) ==
    LET email == Trim(ToLowerCase(userData.email))
        h == hashPassword(userData.password, salt)
        e == encrypt(userData.aadhaar, iv, envKey)
        body ==
            IF findOne(coll, email) # 0
            THEN Throw("ValidationError", <<"User with this email already exists">>)
            ELSE IF ~h.ok THEN h
            ELSE IF ~e.ok THEN e
            ELSE Ok([email |-> email, password |-> h.value,
                     encryptedAadhaar |-> e.value, name |-> Trim(userData.name)])
    IN IF body.ok THEN body ELSE createUserCatch(body)

\* createUser when it returns the user although save() rejected
createUserSave_ReturnsUnsaved(coll, doc, clock) ==
    Ok([_id |-> Len(coll) + 1, email |-> doc.email, name |-> doc.name,
        createdAt |-> clock, updatedAt |-> clock])

\* createUser from `newUser.save()` on: what it returns, or the error
createUserSave(coll, doc, clock) ==
    LET r == saveNew(coll, doc, clock) IN
    IF r.ok
    THEN Ok([_id |-> r.value._id, email |-> r.value.email, name |-> r.value.name,
             createdAt |-> r.value.createdAt, updatedAt |-> r.value.updatedAt])
    ELSE createUserCatch(r)

\* findUserById: the _id, 0 for null, or the error
findUserById(coll, userId) ==
    LET id == CastObjectId(userId) IN
    IF id = 0 THEN Throw("ValidationError", <<"Invalid user ID format">>)
    ELSE Ok(IF id <= Len(coll) THEN id ELSE 0)

\* verifyPassword
verifyPassword(plainPassword, hashedPassword) ==
    LET r == comparePassword(plainPassword, hashedPassword) IN
    IF r.ok THEN r ELSE Err(<<"Password verification failed: ">> \o r.error)

\* getUserProfile when it reads the first stored user, whoever asks
getUserProfile_FirstUser(coll, userId, envKey) ==
    LET f == findUserById(coll, userId) IN
    IF ~f.ok THEN {f}
    ELSE IF Len(coll) = 0 THEN {Throw("NotFoundError", <<"User not found">>)}
    ELSE LET user == coll[1] IN
         { IF d.ok
           THEN Ok([_id |-> user._id, email |-> user.email, name |-> user.name,
                    aadhaar |-> d.value, createdAt |-> user.createdAt,
                    updatedAt |-> user.updatedAt])
           ELSE Err(<<"Failed to get user profile: ", "Failed to decrypt Aadhaar: ">>
                       \o d.error) :
             d \in decrypt(user.encryptedAadhaar, envKey) }

\* getUserProfile: the set of outcomes
getUserProfile(coll, userId, envKey) ==
    LET f == findUserById(coll, userId) IN
    IF ~f.ok THEN {f}
    ELSE IF f.value = 0 THEN {Throw("NotFoundError", <<"User not found">>)}
    ELSE LET user == coll[f.value] IN
         { IF d.ok
           THEN Ok([_id |-> user._id, email |-> user.email, name |-> user.name,
                    aadhaar |-> d.value, createdAt |-> user.createdAt,
                    updatedAt |-> user.updatedAt])
           ELSE Err(<<"Failed to get user profile: ", "Failed to decrypt Aadhaar: ">>
                       \o d.error) :
             d \in decrypt(user.encryptedAadhaar, envKey) }

\* updateUserProfile when it copies every field of updateData onto the document
updateUserProfile_AssignsAll(coll, userId, updateData, clock) ==
    LET f == findUserById(coll, userId) IN
    IF ~f.ok \/ f.value = 0 THEN [users |-> coll, result |-> f]
    ELSE LET user == coll[f.value]
             saved == [k \in DOMAIN user |->
                          IF k \in DOMAIN updateData THEN updateData[k]
                          ELSE IF k = "updatedAt" THEN clock ELSE user[k]]
         IN [users |-> [coll EXCEPT ![f.value] = saved], result |-> Ok(saved.name)]

\* updateUserProfile: the collection afterwards and what the call returns
updateUserProfile(coll, userId, updateData, clock) ==
    LET f == findUserById(coll, userId) IN
    IF ~f.ok THEN [users |-> coll, result |-> f]
    ELSE IF f.value = 0
    THEN [users |-> coll, result |-> Throw("NotFoundError", <<"User not found">>)]
    ELSE LET user == coll[f.value]
             name == IF updateData.name # <<>> THEN Trim(updateData.name) ELSE user.name
             changed == [user EXCEPT !.name = name]
             modified == name # user.name
             errs == SchemaErrors(changed)
             \* timestamps: true sets updatedAt when a modified document is saved
             saved == [changed EXCEPT !.updatedAt = IF modified THEN clock ELSE @]
         IN IF modified /\ errs # <<>>
            THEN [users |-> coll,
                  result |-> Err(<<"Failed to update user profile: ",
                                   "User validation failed: ">> \o Join(errs, ", "))]
            ELSE [users |-> [coll EXCEPT ![f.value] = saved],
                  result |-> Ok([_id |-> saved._id, email |-> saved.email,
                                 name |-> saved.name, createdAt |-> saved.createdAt,
                                 updatedAt |-> saved.updatedAt])]

-----------------------------------------------------------------------------
(* authenticateToken and the controllers                                     *)

Bearer == Str(<<"B", "e", "a", "r", "e", "r", " ">>)
StartsWith(s, prefix) == Len(s) >= Len(prefix) /\ SubSeq(s, 1, Len(prefix)) = prefix

\* error.message.includes(word), over the messages verifyToken can throw
Includes(msg, word) ==
    \E i \in 1..Len(msg) :
        CASE word = "expired" -> msg[i] \in {ExpiredMessage[1], "jwt expired"}
          [] word = "Invalid token" -> msg[i] = InvalidMessage[1]
          [] word = "Token" -> msg[i] \in {ExpiredMessage[1], NotActiveMessage[1],
                                           "Token verification failed: ",
                                           "Token is required"}
          [] OTHER -> FALSE

\* AuthenticationError when it is a plain Error, without a status code
AuthenticationError_Plain(text1) == Throw("Error", <<text1>>)

AuthenticationError(text1) == Throw("AuthenticationError", <<text1>>)

\* authenticateToken: req.user, or the error handed to next()
authenticateToken(authHeader, clock) ==
    IF Falsy(authHeader)
    THEN AuthenticationError("Authorization header is missing. Please provide a token.")
    ELSE IF ~StartsWith(authHeader, Bearer)
    THEN AuthenticationError("Invalid authorization format. Use: Bearer <token>")
    ELSE LET token == SubSeq(authHeader, Len(Bearer) + 1, Len(authHeader)) IN
         IF token = <<>> \/ Trim(token) = <<>>
         THEN AuthenticationError("Token is missing. Please provide a valid token.")
         ELSE LET decoded == verifyToken(token, clock) IN
              IF decoded.ok
              THEN Ok([userId |-> decoded.value.userId, email |-> decoded.value.email])
              ELSE IF Includes(decoded.error, "expired")
              THEN Throw("AuthenticationError", ExpiredMessage)
              ELSE IF Includes(decoded.error, "Invalid token")
                      \/ Includes(decoded.error, "Token")
              THEN Throw("AuthenticationError", InvalidMessage)
              ELSE AuthenticationError("Authentication failed. Please login again.")

\* res.status(code).json({success: true, message, data})
Success(code, message, data) ==
    [status |-> code,
     body |-> [success |-> TRUE, message |-> <<message>>, data |-> data]]

\* data of the register and login responses
TokenAndUser(token, user) ==
    [token |-> token,
     user |-> [_id |-> IdToString(user._id), email |-> user.email,
               name |-> user.name, createdAt |-> user.createdAt]]

\* register, after createUser has returned user
register(user, clock) ==
    LET token == generateToken(IdToString(user._id), user.email, clock) IN
    IF ~token.ok THEN errorHandler(token)
    ELSE Success(201, "User registered successfully", TokenAndUser(token.value, user))

\* login when it issues the token without looking at the password
login_SkipsPasswordCheck(coll, body, clock) ==
    LET id == findOne(coll, Trim(ToLowerCase(body.email))) IN
    IF id = 0 THEN errorHandler(AuthenticationError("Invalid email or password"))
    ELSE Success(200, "Login successful",
                 TokenAndUser(generateToken(IdToString(coll[id]._id), coll[id].email,
                                            clock).value, coll[id]))

\* login when it tells an unknown email apart from a wrong password
login_NamesUnknownUser(coll, body, clock) ==
    LET id == findOne(coll, Trim(ToLowerCase(body.email)))
        denied == errorHandler(AuthenticationError("Invalid email or password"))
    IN IF id = 0 THEN errorHandler(Throw("NotFoundError", <<"User not found">>))
       ELSE LET isPasswordValid == verifyPassword(body.password, coll[id].password)
                token == generateToken(IdToString(coll[id]._id), coll[id].email, clock)
            IN IF ~isPasswordValid.ok THEN errorHandler(isPasswordValid)
               ELSE IF ~isPasswordValid.value THEN denied
               ELSE IF ~token.ok THEN errorHandler(token)
               ELSE Success(200, "Login successful", TokenAndUser(token.value, coll[id]))

\* login, on the validated body
login(coll, body, clock) ==
    LET id == findOne(coll, Trim(ToLowerCase(body.email)))
        denied == errorHandler(AuthenticationError("Invalid email or password"))
    IN IF id = 0 THEN denied
       ELSE LET isPasswordValid == verifyPassword(body.password, coll[id].password)
                token == generateToken(IdToString(coll[id]._id), coll[id].email, clock)
            IN IF ~isPasswordValid.ok THEN errorHandler(isPasswordValid)
               ELSE IF ~isPasswordValid.value THEN denied
               ELSE IF ~token.ok THEN errorHandler(token)
               ELSE Success(200, "Login successful", TokenAndUser(token.value, coll[id]))

\* router.post('/login', validateLogin, login)
postLogin(coll, rawBody, clock) ==
    LET v == validateLogin(rawBody) IN
    IF ~v.ok THEN errorHandler(v) ELSE login(coll, v.value, clock)

\* getProfile, behind authenticateToken: the set of responses
getProfile(coll, reqUser, envKey) ==
    { IF p.ok
      THEN Success(200, "Profile retrieved successfully",
                   [profile |-> [_id |-> IdToString(p.value._id), email |-> p.value.email,
                                 name |-> p.value.name, aadhaar |-> p.value.aadhaar,
                                 createdAt |-> p.value.createdAt,
                                 updatedAt |-> p.value.updatedAt]])
      ELSE errorHandler(p) :
        p \in getUserProfile(coll, reqUser.userId, envKey) }

-----------------------------------------------------------------------------
(* The service: register (in two steps, so that requests overlap), login,    *)
(* profile reads and profile updates against one users collection.           *)

MaxAdvances == 1    \* clock advances while the service is observed
EmailA == Str(<<"a", "@", "x", ".", "z", "z">>)
EmailB == Str(<<"b", "@", "x", ".", "z", "z">>)
EmailSpacedUpper == Str(<<" ", "A", "@", "x", ".", "z", "z", " ">>)
GoodPassword == Stem \o Str(<<"x", "x", "x">>)
OtherPassword == Stem \o Str(<<"x", "x", "y">>)
GoodAadhaar == Str(<<"1", "2", "3", "4", "5", "6", "7", "8", "9", "0", "1", "2">>)

RegisterBodies ==
    { [email |-> EmailA, password |-> GoodPassword, aadhaar |-> GoodAadhaar,
       name |-> <<>>],
      [email |-> EmailSpacedUpper, password |-> GoodPassword,
       aadhaar |-> Str(<<" ">>) \o GoodAadhaar, name |-> Str(<<" ", "A", "b", " ">>)],
      [email |-> EmailB, password |-> OtherPassword, aadhaar |-> GoodAadhaar,
       name |-> <<>>],
      [email |-> EmailA \o Str(<<"z", "z">>),      \* refused by the schema's regex
       password |-> GoodPassword, aadhaar |-> GoodAadhaar,
       name |-> <<>>],
      [email |-> <<>>, password |-> <<>>, aadhaar |-> <<>>, name |-> <<>>],
      [email |-> Str(<<"a", "x">>), password |-> GoodPassword, aadhaar |-> GoodAadhaar,
       name |-> <<>>],
      [email |-> EmailA, password |-> Stem \o Str(<<"x", "x">>),
       aadhaar |-> Str(Rep("1", AadhaarLen)), name |-> Str(<<"A">>)] }

LoginBodies ==
    { [email |-> EmailA, password |-> GoodPassword],
      [email |-> EmailA, password |-> OtherPassword],
      [email |-> EmailSpacedUpper, password |-> GoodPassword],
      [email |-> EmailB, password |-> <<>>],
      [email |-> Str(<<"a", "x">>), password |-> GoodPassword],
      [email |-> <<>>, password |-> <<>>] }

\* tokens the service has handed out, or could have, for the stored users
IssuableTokens(coll, clock) ==
    UNION { { r.value :
                r \in { g \in { generateToken(IdToString(coll[i]._id), coll[i].email, t) :
                                   t \in {x \in {k * JWT_EXPIRES_IN_MS : k \in 0..MaxAdvances} :
                                             coll[i].createdAt <= x /\ x <= clock} } :
                           g.ok } } :
            i \in 1..Len(coll) }

\* tokens the service did not hand out: signed with another secret, for
\* another audience, without a signature, not a token, for no ObjectId, for
\* the ObjectId of the last user the collection has room for
OtherTokens(clock) ==
    LET p == [userId |-> Str(<<"1">>), email |-> EmailA] IN
    { JwtSign(p, OtherSecret, JWT_EXPIRES_IN_MS, ISSUER, AUDIENCE, clock),
      JwtSign(p, JWT_SECRET, JWT_EXPIRES_IN_MS, ISSUER, "other-client", clock),
      SubSeq(JwtSign(p, JWT_SECRET, JWT_EXPIRES_IN_MS, ISSUER, AUDIENCE, clock), 1, 4),
      Str(<<"x", "y">>),
      generateTestToken(Str(<<"z">>), EmailA, 3600000, clock).value,
      generateTestToken(IdToString(MaxUsers), EmailA, 3600000, clock).value }

AuthHeaders(coll, clock) ==
    {<<>>, Bearer \o Str(<<" ">>)}
        \cup {t \in IssuableTokens(coll, clock) : t[3].json.iat * 1000 = clock}
        \cup {Bearer \o t : t \in IssuableTokens(coll, clock) \cup OtherTokens(clock)}

UpdateIds == {IdToString(i) : i \in 1..MaxUsers} \cup {Str(<<"z">>)}
UpdateData ==
    { [name |-> <<>>],
      [name |-> Str(<<" ", "A", "b", " ">>), password |-> GoodPassword,
       encryptedAadhaar |-> GoodAadhaar] }

Reply(kind, req, res) ==
    [kind |-> kind, req |-> req, status |-> res.status, body |-> res.body]

Init ==
    /\ aesKey \in AesKeys
    /\ jwtExpiresIn = Undefined
    /\ IdleCipher
    /\ IdleHash
    /\ IdleClock
    /\ IdleToken
    /\ IdleSystem

TickSystem ==
    /\ ticks < MaxAdvances
    /\ now' = now + JWT_EXPIRES_IN_MS       \* by one token lifetime
    /\ ticks' = ticks + 1
    /\ UNCHANGED <<aesKey, jwtExpiresIn, cipherVars, hashVars, tokenVars, systemVars>>

\* POST /api/auth/register up to the point where createUser awaits save()
RegisterReceive ==
    /\ BagCardinality(pending) < MaxInFlight
    /\ Len(users) + BagCardinality(pending) < MaxUsers
    /\ \E rawBody \in RegisterBodies,
          salt \in {CHOOSE x \in Salts : TRUE},         \* the salt bcrypt draws
          iv \in {CHOOSE x \in RandomIVs : TRUE} :      \* the IV randomBytes returns
          LET v == validateRegister(rawBody)
              c == createUserPrepare(users, v.value, salt, iv, aesKey)
          IN IF ~v.ok
             THEN /\ response' = Reply("register", rawBody, errorHandler(v))
                  /\ UNCHANGED pending
             ELSE IF ~c.ok
             THEN /\ response' = Reply("register", rawBody, errorHandler(c))
                  /\ UNCHANGED pending
             ELSE /\ pending' = pending (+) SetToBag({[req |-> rawBody, doc |-> c.value]})
                  /\ UNCHANGED response
    /\ UNCHANGED <<aesKey, jwtExpiresIn, cipherVars, hashVars, clockVars, tokenVars, users>>

\* ... and from save() to the response, for one of the requests in progress
RegisterSave(p) ==
    /\ BagIn(p, pending)
    /\ LET saved == saveNew(users, p.doc, now)
           user == createUserSave(users, p.doc, now)
       IN /\ users' = IF saved.ok THEN Append(users, saved.value) ELSE users
          /\ response' = Reply("register", p.req,
                               IF user.ok THEN register(user.value, now)
                               ELSE errorHandler(user))
    /\ pending' = pending (-) SetToBag({p})
    /\ UNCHANGED <<aesKey, jwtExpiresIn, cipherVars, hashVars, clockVars, tokenVars>>

\* POST /api/auth/login
Login ==
    /\ \E rawBody \in LoginBodies :
          response' = Reply("login", rawBody, postLogin(users, rawBody, now))
    /\ UNCHANGED <<aesKey, jwtExpiresIn, cipherVars, hashVars, clockVars, tokenVars, users, pending>>

\* GET /api/profile
GetProfile ==
    /\ \E authHeader \in AuthHeaders(users, now) :
          LET a == authenticateToken(authHeader, now) IN
          IF ~a.ok
          THEN response' = Reply("getProfile", authHeader, errorHandler(a))
          ELSE \E res \in getProfile(users, a.value, aesKey) :
                   response' = Reply("getProfile", authHeader, res)
    /\ UNCHANGED <<aesKey, jwtExpiresIn, cipherVars, hashVars, clockVars, tokenVars, users, pending>>

\* userService.updateUserProfile(userId, updateData)
UpdateUserProfile ==
    /\ \E userId \in UpdateIds, updateData \in UpdateData :
          LET u == updateUserProfile(users, userId, updateData, now) IN
          /\ users' = u.users
          /\ response' = [kind |-> "updateUserProfile",
                          req |-> [userId |-> userId, updateData |-> updateData],
                          result |-> u.result]
    /\ UNCHANGED <<aesKey, jwtExpiresIn, cipherVars, hashVars, clockVars, tokenVars, pending>>

Next ==
    \/ TickSystem
    \/ RegisterReceive
    \/ \E p \in BagToSet(pending) : RegisterSave(p)
    \/ Login
    \/ GetProfile
    \/ UpdateUserProfile

Spec == Init /\ [][Next]_vars

-----------------------------------------------------------------------------
(* Properties of the service                                                 *)

\* the lower-cased, trimmed form of an email
NormalEmail(e) == ToLowerCase(Trim(e))

\* C7: no two stored users share the same lower-cased trimmed email, even
\* when registrations for the same email are handled at the same time.
C7_UniqueEmails ==
    \A i, j \in 1..Len(users) :
        i # j => NormalEmail(users[i].email) # NormalEmail(users[j].email)

\* C7 witness: two registrations of one email passed the findOne check
\* together; one was stored and the other was refused by the unique index.
C7_Witness ==
    /\ response.kind = "register"
    /\ ~response.body.success
    /\ response.body.message = <<"Failed to create user: ", "Email already exists">>
    /\ \E i \in 1..Len(users) : users[i].email = NormalEmail(response.req.email)

\* what a step may change in a stored user, given the fields it may touch
SameExcept(before, after, fields) ==
    /\ DOMAIN after = DOMAIN before
    /\ \A k \in DOMAIN before \ fields : after[k] = before[k]

\* C8 as written: once a user is stored, no step changes its password hash or
\* its encrypted Aadhaar, and no step changes anything of it but the name.
C8_OnlyNameChanges ==
    [][\A i \in 1..Len(users) :
          /\ i <= Len(users')
          /\ SameExcept(users[i], users'[i], {"name"})]_vars

\* C8: once a user is stored, no step changes its password hash or its
\* encrypted Aadhaar (nor its _id, email or createdAt); updateUserProfile
\* changes at most the name and the updatedAt timestamp.
C8_CredentialsNeverChange ==
    [][\A i \in 1..Len(users) :
          /\ i <= Len(users')
          /\ users'[i].password = users[i].password
          /\ users'[i].encryptedAadhaar = users[i].encryptedAadhaar
          /\ SameExcept(users[i], users'[i], {"name", "updatedAt"})]_vars

\* C8 witness: after the clock moved, updateUserProfile gave a stored user a
\* new name (and a new updatedAt) and left the hash of its password in place.
C8_Witness ==
    /\ response.kind = "updateUserProfile"
    /\ response.result.ok
    /\ "password" \in DOMAIN response.req.updateData
    /\ \E i \in 1..Len(users) :
          /\ response.req.userId = IdToString(i)
          /\ users[i].name = Str(<<"A", "b">>)
          /\ users[i].updatedAt > users[i].createdAt
          /\ users[i].password \in {hashPassword(GoodPassword, x).value : x \in Salts}

\* s contains x as a substring
Contains(s, x) ==
    /\ x # <<>>
    /\ \E k \in 0..(Len(s) - Len(x)) : SubSeq(s, k + 1, k + Len(x)) = x

\* s contains the stored password hash or the stored encrypted Aadhaar of a user
Leaks(s) ==
    \E i \in 1..Len(users) :
        Contains(s, users[i].password) \/ Contains(s, users[i].encryptedAadhaar)

\* the passwords and Aadhaar numbers clients submit
Plaintexts ==
    {b.password : b \in RegisterBodies} \cup {Trim(b.aadhaar) : b \in RegisterBodies}
CarriesAadhaar(s) == \E b \in RegisterBodies : Contains(s, Trim(b.aadhaar))

SecretFields == {"password", "encryptedAadhaar"}
TimeFields == {"createdAt", "updatedAt"}

\* C9: no register, login or profile response contains the stored password
\* hash or the stored encrypted Aadhaar string; no stored record contains a
\* plaintext Aadhaar number or password; of the responses only the profile
\* response carries the decrypted Aadhaar.
C9_SecretsStayInside ==
    /\ (response.kind \in {"register", "login"} /\ response.body.success) =>
          LET d == response.body.data
              claims == d.token[3].json
          IN /\ DOMAIN d = {"token", "user"}
             /\ DOMAIN d.user \cap SecretFields = {}
             /\ \A k \in DOMAIN d.user \ TimeFields :
                    ~Leaks(d.user[k]) /\ ~CarriesAadhaar(d.user[k])
             /\ ~Leaks(d.token)
             /\ DOMAIN claims = {"userId", "email", "iat", "exp", "iss", "aud"}
             /\ \A k \in {"userId", "email"} :
                    ~Leaks(claims[k]) /\ ~CarriesAadhaar(claims[k])
    /\ (response.kind = "getProfile" /\ response.body.success) =>
          LET p == response.body.data.profile
          IN /\ DOMAIN p \cap SecretFields = {}
             /\ \A k \in DOMAIN p \ TimeFields : ~Leaks(p[k])
    /\ \A i \in 1..Len(users) :
          \A k \in {"email", "password", "encryptedAadhaar", "name"} :
              \A plain \in Plaintexts : ~Contains(users[i][k], plain)

\* C9 witness: a profile response carrying the Aadhaar number the user
\* registered with, while the collection holds its encrypted form.
C9_Witness ==
    /\ response.kind = "getProfile"
    /\ response.body.success
    /\ response.body.data.profile.aadhaar = GoodAadhaar
    /\ \E i \in 1..Len(users) :
          /\ response.body.data.profile._id = IdToString(i)
          /\ users[i].encryptedAadhaar # GoodAadhaar
          /\ Ok(GoodAadhaar) \in decrypt(users[i].encryptedAadhaar, aesKey)

\* the login request names a stored user and carries a password that verifies
LoginMatches(coll, body) ==
    \E i \in 1..Len(coll) :
        /\ coll[i].email = NormalEmail(body.email)
        /\ comparePassword(body.password, coll[i].password) = Ok(TRUE)

TokenIssued(r) == r.body.success /\ "token" \in DOMAIN r.body.data

C11_TokenOnlyAfterSave ==
    [][(response' # response /\ response'.kind = "register") =>
          /\ TokenIssued(response') =>
                /\ Len(users') = Len(users) + 1
                /\ LET saved == users'[Len(users')]
                       req == response'.req
                       claims == response'.body.data.token[3].json
                   IN /\ saved.email = NormalEmail(req.email)
                      /\ saved.password \in {hashPassword(req.password, x).value : x \in Salts}
                      /\ saved.encryptedAadhaar # Trim(req.aadhaar)
                      /\ Ok(Trim(req.aadhaar)) \in decrypt(saved.encryptedAadhaar, aesKey)
                      /\ claims.userId = IdToString(saved._id)
                      /\ claims.email = saved.email
                      /\ response'.body.data.user._id = IdToString(saved._id)
          /\ users' = users =>
                /\ ~response'.body.success
                /\ DOMAIN response'.body = {"success", "message"}]_vars

\* C11 witness: a registration was answered 201 with a token for the record
\* it stored.
C11_Witness ==
    /\ response.kind = "register"
    /\ response.status = 201
    /\ TokenIssued(response)
    /\ \E i \in 1..Len(users) :
          /\ response.body.data.token[3].json.userId = IdToString(users[i]._id)
          /\ users[i].password \in
                {hashPassword(response.req.password, x).value : x \in Salts}

-----------------------------------------------------------------------------
(* The other copy of utils/encryption.js: it reads AES_SECRET_KEY once, when *)
(* it is required, and throws there if the key is missing or not 32 long.    *)

\* the module body above encrypt: ENCRYPTION_KEY, or the error require throws
moduleLoad(envKey) ==
    IF Falsy(envKey)
    THEN Err(<<"AES_SECRET_KEY is not defined in environment variables">>)
    ELSE IF Len(envKey) # KeyLength
         THEN Err(<<"AES_SECRET_KEY must be exactly 32 characters long for AES-256">>)
    ELSE Ok(envKey)

\* encrypt(text) of that copy, ENCRYPTION_KEY being the key it loaded
moduleEncrypt(txt, iv, ENCRYPTION_KEY) ==
    LET body ==
            IF Falsy(txt) THEN Err(<<"Text to encrypt cannot be empty">>)
            ELSE LET c == Cipheriv(Utf8Encode(ENCRYPTION_KEY), iv, Utf8Encode(txt)) IN
                 IF ~c.ok THEN c
                 ELSE Ok(Base64Encode(iv) \o <<Colon>> \o Base64Encode(c.value))
    IN IF body.ok THEN body ELSE Err(<<"Encryption failed: ">> \o body.error)

\* decrypt(encryptedData) of that copy: the set of outcomes
moduleDecrypt(encryptedData, ENCRYPTION_KEY) ==
    LET fail(r) == Err(<<"Decryption failed: ">> \o r.error)
        parts == Split(encryptedData, Colon)
    IN IF Falsy(encryptedData)
       THEN {fail(Err(<<"Encrypted data cannot be empty">>))}
       ELSE IF Len(parts) # 2
            THEN {fail(Err(<<"Invalid encrypted data format. Expected format: iv:encryptedData">>))}
       ELSE {IF r.ok THEN Ok(Utf8Decode(r.value)) ELSE fail(r) :
                r \in Decipheriv(Utf8Encode(ENCRYPTION_KEY), Base64Decode(parts[1]),
                                 Base64Decode(parts[2]))}

-----------------------------------------------------------------------------
(* Either copy in use: the module is required, then encrypt is called on one *)
(* text a number of times, and decrypt on what encrypt returned and on other *)
(* strings.  encrypted is the sequence of encrypt calls (the IV drawn, the   *)
(* result), decrypted the set of decrypt calls (the input, the result).      *)

MaxCalls == 2

CallTexts ==
    { <<>>, NullValue, Undefined, Str(<<" ">>), Str(<<"a">>), Str(<<" ", "a">>),
      Str(<<LoneSurrogate>>) }

\* strings handed to decrypt that encrypt did not return
OtherData ==
    { <<>>, NullValue, Undefined, Str(<<"a", "b">>), Str(<<"a", ":", "b", ":", "c">>),
      Str(<<":", ":">>), Str(<<"a", ":", "b">>) }

InitEncryption ==
    /\ aesKey \in AesKeys
    /\ jwtExpiresIn = Undefined
    /\ loaded = NotCalled
    /\ text \in CallTexts
    /\ encrypted = <<>>
    /\ decrypted = {}
    /\ IdleHash
    /\ IdleClock
    /\ IdleToken
    /\ IdleSystem

\* require('../utils/encryption'), whichever copy is at that path
RequireEncryption ==
    /\ loaded = NotCalled
    /\ loaded' \in {LazyCopy, [copy |-> "module", result |-> moduleLoad(aesKey)]}
    /\ UNCHANGED <<aesKey, jwtExpiresIn, text, encrypted, decrypted, hashVars, clockVars, tokenVars,
                   systemVars>>

\* encrypt(text), once more
EncryptAgain ==
    /\ loaded # NotCalled
    /\ loaded.result.ok
    /\ Len(encrypted) < MaxCalls
    /\ \E iv \in RandomIVs :
          encrypted' = Append(encrypted,
                              [iv |-> iv,
                               result |-> IF loaded.copy = "lazy"
                                          THEN encrypt(text, iv, aesKey)
                                          ELSE moduleEncrypt(text, iv, loaded.result.value)])
    /\ UNCHANGED <<aesKey, jwtExpiresIn, loaded, text, decrypted, hashVars, clockVars, tokenVars,
                   systemVars>>

\* decrypt(data), for a string encrypt returned or another one
DecryptData ==
    /\ loaded # NotCalled
    /\ loaded.result.ok
    /\ Cardinality(decrypted) < MaxCalls
    /\ \E data \in OtherData
                   \cup {encrypted[i].result.value :
                           i \in {j \in 1..Len(encrypted) : encrypted[j].result.ok}} :
          \E r \in IF loaded.copy = "lazy" THEN decrypt(data, aesKey)
                   ELSE moduleDecrypt(data, loaded.result.value) :
              decrypted' = decrypted \cup {[data |-> data, result |-> r]}
    /\ UNCHANGED <<aesKey, jwtExpiresIn, loaded, text, encrypted, hashVars, clockVars, tokenVars,
                   systemVars>>

NextEncryption == RequireEncryption \/ EncryptAgain \/ DecryptData

SpecEncryption == InitEncryption /\ [][NextEncryption]_vars

-----------------------------------------------------------------------------
(* Properties of encrypt and decrypt, for either copy                        *)

\* the strings encrypt returned so far
Ciphertexts ==
    {encrypted[i].result.value : i \in {j \in 1..Len(encrypted) : encrypted[j].result.ok}}

\* C12: when AES_SECRET_KEY is absent or not exactly 32 long the failure is
\* raised when the module is initialized, so that no encrypt or decrypt call
\* is ever processed; and no encrypt or decrypt call returns a result made
\* with a key that is not exactly 32 bytes.
C12_KeyFailureAtInitialization ==
    /\ ~moduleLoad(aesKey).ok => encrypted = <<>> /\ decrypted = {}
    /\ \A i \in 1..Len(encrypted) : encrypted[i].result.ok => KeyUsable(aesKey)
    /\ \A d \in decrypted : d.result.ok => KeyUsable(aesKey)

BeforeDecipher ==
    { "Encrypted data cannot be empty",
      "Invalid encrypted data format. Expected format: iv:encryptedData",
      "AES_SECRET_KEY is not defined in environment variables",
      "AES_SECRET_KEY must be exactly 32 characters long for AES-256. " }

\* C14: decrypt fails, returning no plaintext, for every input that is empty
\* (or null or undefined) or that does not split on ':' into exactly two
\* parts, and it fails before any cipher operation.
C14_DecryptRejectsMalformed ==
    \A d \in decrypted :
        (Falsy(d.data) \/ Len(Split(d.data, Colon)) # 2) =>
            /\ ~d.result.ok
            /\ d.result.error[1] = "Decryption failed: "
            /\ d.result.error[2] \in BeforeDecipher

\* C14 witness: decrypt was called on "a:b:c" and on "ab", and both calls
\* failed with the format error.
C14_Witness ==
    LET format == Err(<<"Decryption failed: ",
                        "Invalid encrypted data format. Expected format: iv:encryptedData">>)
    IN decrypted = {[data |-> Str(<<"a", ":", "b", ":", "c">>), result |-> format],
                    [data |-> Str(<<"a", "b">>), result |-> format]}

\* C15: encrypt fails and returns no ciphertext for every input that is
\* empty, null, undefined or made of whitespace only.
C15_EncryptRejectsBlank ==
    (Falsy(text) \/ Len(Trim(text)) = 0) =>
        \A i \in 1..Len(encrypted) : ~encrypted[i].result.ok

-----------------------------------------------------------------------------
(* A protected route on its own: a token is issued (generateToken, as login  *)
(* and register call it) or made by someone else, the browser stores tokens  *)
(* it is given and logs out, the clock advances, and requests reach          *)
(* router.get('/', authenticateToken, getProfile) with any header.           *)

\* Authorization headers built around a token (<<>> when there is none)
HeadersFor(token) ==
    { Undefined, <<>>, token, Str(<<"b", "e", "a", "r", "e", "r", " ">>) \o token,
      Bearer, Bearer \o Str(<<" ", " ">>), Bearer \o token,
      Bearer \o Str(<<" ">>) \o token }

\* the clock of the protected route: a second, or all but the last second of
\* a token's lifetime
TickAuth ==
    /\ ticks < MaxTicks
    /\ \E d \in {1000, JWT_EXPIRES_IN_MS - 1000} :
          now + d <= ClockHorizon /\ now' = now + d
    /\ ticks' = ticks + 1
    /\ UNCHANGED <<aesKey, jwtExpiresIn, systemVars, cipherVars, hashVars, tokenVars>>

\* the browser logs in: the login controller calls generateToken for the
\* user, and the browser stores the token of the response in localStorage.
\* The first token issued is the token under test; later logins of the same
\* user replace what the browser has stored.
ClientLogin ==
    /\ issued.by \in {"none", "generateToken"}
    /\ LET userId == IF issued.by = "none" THEN Str(<<"1">>) ELSE issued.userId
           email == IF issued.by = "none" THEN Str(<<"a", "@", "x">>) ELSE issued.email
           token == generateToken(userId, email, now)
       IN /\ client.token # token.value
          /\ client' = [token |-> token.value, loggedOut |-> FALSE]
          /\ issued' = IF issued.by = "none"
                       THEN [by |-> "generateToken", userId |-> userId, email |-> email,
                             at |-> now, result |-> token]
                       ELSE issued
    /\ UNCHANGED <<aesKey, jwtExpiresIn, systemVars, cipherVars, hashVars, clockVars, verified, seen,
                   decodedToken>>

\* logout(): localStorage.removeItem('token')
Logout ==
    /\ client.token # NullValue
    /\ client' = [token |-> NullValue, loggedOut |-> TRUE]
    /\ UNCHANGED <<aesKey, jwtExpiresIn, systemVars, cipherVars, hashVars, clockVars, issued, verified,
                   seen, decodedToken>>

\* a request to the protected route: authenticateToken, then getProfile if
\* next() was called without an error, the error handler otherwise
AuthenticateCall ==
    /\ \E authHeader \in HeadersFor(IF issued.result.ok THEN issued.result.value ELSE <<>>) :
          LET r == authenticateToken(authHeader, now) IN
          response' = [kind |-> "authenticateToken", req |-> authHeader, at |-> now,
                       client |-> client, result |-> r,
                       next |-> IF r.ok THEN [ran |-> "getProfile"]
                                ELSE [ran |-> "errorHandler", reply |-> errorHandler(r)]]
    /\ UNCHANGED <<aesKey, jwtExpiresIn, cipherVars, hashVars, clockVars, tokenVars, users, pending>>

NextAuth ==
    \/ TickAuth
    \/ PresentForeignToken
    \/ ClientLogin
    \/ Logout
    \/ AuthenticateCall

SpecAuth == InitToken /\ [][NextAuth]_vars

-----------------------------------------------------------------------------
(* Properties of the protected route                                         *)

\* the token of a header 'Bearer <token>'
BearerToken(authHeader) == SubSeq(authHeader, Len(Bearer) + 1, Len(authHeader))

\* what authenticateToken puts in req.user for a token with these claims
ReqUser(claims) == Ok([userId |-> claims.userId, email |-> claims.email])

\* C18: issued tokens are not tracked or revoked: a token issued at login is
\* accepted by authenticateToken at every instant before its expiry, whatever
\* happened since it was issued (the browser logged out, the user logged in
\* again, the clock moved), both when presented now and in every request
\* that did present it.
C18_AcceptedUntilExpiry ==
    (issued.by = "generateToken" /\ issued.result.ok) =>
        /\ now < ExpiresAtMs =>
              authenticateToken(Bearer \o issued.result.value, now) = ReqUser(IssuedClaims)
        /\ (/\ response.kind = "authenticateToken"
            /\ response.req = Bearer \o issued.result.value
            /\ response.at < ExpiresAtMs)
              => /\ response.result = ReqUser(IssuedClaims)
                 /\ response.next.ran = "getProfile"

\* C18 witness: after the browser had logged out, and a second before the
\* token expired, a request with the token was let through.
C18_Witness ==
    /\ issued.by = "generateToken"
    /\ response.kind = "authenticateToken"
    /\ response.req = Bearer \o issued.result.value
    /\ response.client = [token |-> NullValue, loggedOut |-> TRUE]
    /\ response.at = ExpiresAtMs - 1000
    /\ response.result.ok

\* C19: authenticateToken fails closed: it calls next() without an error
\* only when the header is 'Bearer <token>' and verifyToken succeeded on the
\* token, and then req.user holds exactly the token's userId and email; for
\* a missing header, another scheme, a blank token or a token that does not
\* verify it hands an AuthenticationError (401) to next, and getProfile does
\* not run.
C19_FailsClosed ==
    response.kind = "authenticateToken" =>
        LET h == response.req
            bearer == ~Falsy(h) /\ StartsWith(h, Bearer) /\ Trim(BearerToken(h)) # <<>>
            v == verifyToken(BearerToken(h), response.at)
        IN /\ response.result.ok <=> (bearer /\ v.ok)
           /\ response.result.ok =>
                 /\ response.result = ReqUser(v.value)
                 /\ response.next = [ran |-> "getProfile"]
           /\ ~response.result.ok =>
                 /\ response.result.name = "AuthenticationError"
                 /\ response.next.ran = "errorHandler"
                 /\ response.next.reply.status = 401
                 /\ ~response.next.reply.body.success

\* C19 witness: a request that carried a valid token without the Bearer
\* scheme was refused with 401.
C19_Witness ==
    /\ issued.by = "generateToken"
    /\ response.kind = "authenticateToken"
    /\ response.req = issued.result.value
    /\ verifyToken(response.req, response.at).ok
    /\ response.next.ran = "errorHandler"
    /\ response.next.reply.status = 401

\* a token that is well formed, signed with this service's secret, for this
\* issuer and audience, and active: nothing but its expiry can fail
OnlyExpiryCanFail(token, clock) ==
    /\ JwtDecode(token).ok
    /\ Len(token) = 5
    /\ token[5] = Signature("HS256", JWT_SECRET, token[1].json, token[3].json)
    /\ token[3].json.iss = ISSUER
    /\ token[3].json.aud = AUDIENCE
    /\ "nbf" \in DOMAIN token[3].json => token[3].json.nbf <= clock \div 1000

\* C20: authenticateToken answers a token that failed verification because
\* of its expiry with 'Token has expired. Please login again.' and every
\* other verification failure (bad signature, wrong issuer or audience,
\* malformed, not yet active) with 'Invalid token. Please login again.',
\* never the one for the other.
C20_ExpiredOrInvalid ==
    (/\ response.kind = "authenticateToken"
     /\ ~Falsy(response.req)
     /\ StartsWith(response.req, Bearer)
     /\ Trim(BearerToken(response.req)) # <<>>
     /\ ~response.result.ok)
        => response.result.error =
              IF OnlyExpiryCanFail(BearerToken(response.req), response.at)
              THEN ExpiredMessage ELSE InvalidMessage

-----------------------------------------------------------------------------
(* utils/tokenValidator.js.  A field that is null in the code is Null here, *)
(* a field that holds a value v is Ok(v); an error field holds Err(message). *)

EmptyStructure ==
    [validStructure |-> FALSE, hasHeader |-> FALSE, hasPayload |-> FALSE,
     hasSignature |-> FALSE, parts |-> <<>>, error |-> Null]

\* validateTokenStructure(token)
validateTokenStructure(token) ==
    IF Falsy(token)
    THEN [EmptyStructure EXCEPT !.error = Err(<<"Token must be a non-empty string">>)]
    ELSE LET parts == Split(token, Dot)
         IN IF Len(parts) # 3
            THEN [EmptyStructure EXCEPT
                    !.parts = parts,
                    !.error = Err(<<"Invalid token structure. Expected 3 parts, got ",
                                    ToString(Len(parts))>>)]
            ELSE [validStructure |-> TRUE, hasHeader |-> parts[1] # <<>>,
                  hasPayload |-> parts[2] # <<>>, hasSignature |-> parts[3] # <<>>,
                  parts |-> parts, error |-> Null]

\* a call that threw (a call that returned null did not)
Threw(r) == ~r.ok /\ r.name = "Error"

EmptyValidation ==
    [valid |-> FALSE, decoded |-> Null, error |-> Null, expired |-> FALSE,
     invalid |-> FALSE, details |-> Null]

\* new Date(ms).toISOString()
ToISOString(ms) == [t |-> "iso", ms |-> ms]

\* the details validateToken attaches to a token verifyToken refused
FailureDetails(d) ==
    IF d.ok
    THEN Ok([userId |-> d.value.userId, email |-> d.value.email, expired |-> TRUE,
             expiredAt |-> IF "exp" \in DOMAIN d.value /\ d.value.exp # 0
                           THEN Ok(ToISOString(d.value.exp * 1000)) ELSE Null])
    ELSE Ok([userId |-> Undefined, email |-> Undefined, expired |-> TRUE,
             expiredAt |-> Null])

\* validateToken when it does not decode a token that verifyToken refused
validateToken_NoDecode(token, clock) ==
    IF Falsy(token)
    THEN [EmptyValidation EXCEPT !.error = Err(<<"Token is required">>), !.invalid = TRUE]
    ELSE LET v == verifyToken(token, clock)
         IN IF v.ok
            THEN [EmptyValidation EXCEPT
                    !.valid = TRUE, !.decoded = v,
                    !.details = Ok([userId |-> v.value.userId, email |-> v.value.email,
                                    iat |-> v.value.iat, exp |-> v.value.exp,
                                    issuer |-> v.value.iss, audience |-> v.value.aud])]
            ELSE LET isExpired == Includes(v.error, "expired")
                 IN [EmptyValidation EXCEPT
                        !.error = Err(v.error),
                        !.expired = isExpired,
                        !.invalid = ~isExpired]

\* validateToken(token) at time clock
validateToken(token, clock) ==
    IF Falsy(token)
    THEN [EmptyValidation EXCEPT !.error = Err(<<"Token is required">>), !.invalid = TRUE]
    ELSE LET v == verifyToken(token, clock)
         IN IF v.ok
            THEN [EmptyValidation EXCEPT
                    !.valid = TRUE, !.decoded = v,
                    !.details = Ok([userId |-> v.value.userId, email |-> v.value.email,
                                    iat |-> v.value.iat, exp |-> v.value.exp,
                                    issuer |-> v.value.iss, audience |-> v.value.aud])]
            ELSE LET isExpired == Includes(v.error, "expired")
                     d == decodeToken(token)
                 IN [EmptyValidation EXCEPT
                        !.error = Err(v.error),
                        !.expired = isExpired,
                        !.invalid = ~isExpired,
                        !.decoded = IF Threw(d) THEN Null ELSE d,
                        !.details = IF Threw(d) THEN Null ELSE FailureDetails(d)]

EmptyExpiration ==
    [expired |-> FALSE, expiresAt |-> Null, expiresIn |-> Null,
     isExpiringSoon |-> FALSE, timeUntilExpiry |-> Null, error |-> Null]

Max(a, b) == IF a >= b THEN a ELSE b

ExpiringSoonMs == 3600000

\* validateTokenExpiration when a token counts as expired only after its
\* expiry instant
validateTokenExpiration_AfterExpiry(token, clock) ==
    LET d == decodeToken(token)
    IN IF Threw(d)
       THEN [EmptyExpiration EXCEPT !.error = Err(d.error)]
       ELSE IF ~d.ok \/ "exp" \notin DOMAIN d.value \/ d.value.exp = 0
       THEN [EmptyExpiration EXCEPT
                !.error = Err(<<"Token does not have expiration claim">>)]
       ELSE LET timeUntilExpiry == d.value.exp * 1000 - clock
            IN [expired |-> timeUntilExpiry < 0,
                expiresAt |-> Ok(ToISOString(d.value.exp * 1000)),
                expiresIn |-> Ok(Max(0, timeUntilExpiry \div 1000)),
                isExpiringSoon |-> timeUntilExpiry > 0 /\ timeUntilExpiry < ExpiringSoonMs,
                timeUntilExpiry |-> Ok(timeUntilExpiry),
                error |-> Null]

\* validateTokenExpiration(token) at time clock
validateTokenExpiration(token, clock) ==
    LET d == decodeToken(token)
    IN IF Threw(d)
       THEN [EmptyExpiration EXCEPT !.error = Err(d.error)]
       ELSE IF ~d.ok \/ "exp" \notin DOMAIN d.value \/ d.value.exp = 0
       THEN [EmptyExpiration EXCEPT
                !.error = Err(<<"Token does not have expiration claim">>)]
       ELSE LET timeUntilExpiry == d.value.exp * 1000 - clock
            IN [expired |-> timeUntilExpiry <= 0,
                expiresAt |-> Ok(ToISOString(d.value.exp * 1000)),
                expiresIn |-> Ok(Max(0, timeUntilExpiry \div 1000)),
                isExpiringSoon |-> timeUntilExpiry > 0 /\ timeUntilExpiry < ExpiringSoonMs,
                timeUntilExpiry |-> Ok(timeUntilExpiry),
                error |-> Null]

\* comprehensiveTokenValidation(token): validateToken reads the clock at
\* time clock, validateTokenExpiration reads it again at time later
comprehensiveTokenValidation(token, clock, later) ==
    LET structure == validateTokenStructure(token)
        validation == validateToken(token, clock)
        expiration == validateTokenExpiration(token, later)
        usable == structure.validStructure /\ validation.valid /\ ~expiration.expired
    IN [structure |-> structure, validation |-> validation, expiration |-> expiration,
        overallValid |-> usable,
        summary |-> [hasValidStructure |-> structure.validStructure,
                     isValid |-> validation.valid,
                     isExpired |-> expiration.expired,
                     canBeUsed |-> usable]]

-----------------------------------------------------------------------------
(* The validator on its own: one token is made at any time, the clock        *)
(* advances, and the validator's functions are called on the token at the   *)
(* time reached.                                                             *)

\* the clock of the validator: a millisecond, the rest of a second, the rest
\* of the hour in which a token is expiring soon, or all of a token's
\* lifetime but its last hour
TickValidator ==
    /\ response = NoResponse
    /\ ticks < MaxTicks
    /\ \E d \in {1, 999, ExpiringSoonMs - 1000, JWT_EXPIRES_IN_MS - ExpiringSoonMs} :
          now + d <= ClockHorizon /\ now' = now + d
    /\ ticks' = ticks + 1
    /\ UNCHANGED <<aesKey, jwtExpiresIn, systemVars, cipherVars, hashVars, tokenVars>>

\* a token of this service with one of three lifetimes: '1s', '1h', '7d'
IssueTestToken ==
    /\ issued.by = "none"
    /\ \E life \in TestLifetimes \cup {JWT_EXPIRES_IN_MS} :
          LET userId == Str(<<"1">>)
              email == Str(<<"A", "@", "x">>)
          IN issued' = [by |-> "generateTestToken", userId |-> userId, email |-> email,
                        at |-> now,
                        result |-> generateTestToken(userId, email, life, now)]
    /\ UNCHANGED <<aesKey, jwtExpiresIn, systemVars, cipherVars, hashVars, clockVars, verified, seen,
                   decodedToken, client>>

\* what the validator is called on: the token under test, or no token
ValidatorInputs ==
    {<<>>, NullValue} \cup (IF issued.result.ok THEN {issued.result.value} ELSE {})

ValidateTokenCall ==
    /\ \E token \in ValidatorInputs :
          response' = [kind |-> "validateToken", req |-> token, at |-> now,
                       result |-> validateToken(token, now)]
    /\ UNCHANGED <<aesKey, jwtExpiresIn, cipherVars, hashVars, clockVars, tokenVars, users, pending>>

ValidateTokenExpirationCall ==
    /\ \E token \in ValidatorInputs :
          response' = [kind |-> "validateTokenExpiration", req |-> token, at |-> now,
                       result |-> validateTokenExpiration(token, now)]
    /\ UNCHANGED <<aesKey, jwtExpiresIn, cipherVars, hashVars, clockVars, tokenVars, users, pending>>

\* one call of comprehensiveTokenValidation, during which the clock may pass
\* to the next millisecond between the validation and the expiration step
ComprehensiveTokenValidationCall ==
    /\ \E token \in ValidatorInputs, elapsed \in {0, 1} :
          /\ elapsed = 1 => ticks < MaxTicks /\ now + elapsed <= ClockHorizon
          /\ response' = [kind |-> "comprehensiveTokenValidation", req |-> token,
                          at |-> now,
                          result |-> comprehensiveTokenValidation(token, now, now + elapsed)]
          /\ now' = now + elapsed
          /\ ticks' = ticks + elapsed
    /\ UNCHANGED <<aesKey, jwtExpiresIn, cipherVars, hashVars, tokenVars, users, pending>>

NextValidator ==
    \/ TickValidator
    \/ IssueTestToken
    \/ PresentForeignToken
    \/ ValidateTokenCall
    \/ ValidateTokenExpirationCall
    \/ ComprehensiveTokenValidationCall

SpecValidator == InitToken /\ [][NextValidator]_vars

-----------------------------------------------------------------------------
(* Properties of the validator                                               *)

\* the token carries a signature made with this service's secret
CorrectlySigned(token) ==
    LET parts == Split(token, Dot)
    IN /\ Len(parts) = 3
       /\ IsJsonSegment(parts[1]) /\ IsJsonSegment(parts[2])
       /\ Len(parts[3]) = 1
       /\ parts[3][1] = Signature(parts[1][1].json.alg, JWT_SECRET,
                                  parts[1][1].json, parts[2][1].json)

\* C21: every result of validateToken has exactly one of the flags valid,
\* expired, invalid set; its error is null exactly when valid is set; and
\* decoded holds the token's claims whenever valid or expired is set.
C21_ValidateTokenFlags ==
    response.kind = "validateToken" =>
        LET r == response.result
            claims == JwtDecode(response.req)
        IN /\ Cardinality({f \in {"valid", "expired", "invalid"} : r[f]}) = 1
           /\ (r.error = Null) <=> r.valid
           /\ (r.valid \/ r.expired) => claims.ok /\ r.decoded = claims

\* validateToken has reported an expired token, whose claims it decoded
C21_Witness ==
    /\ response.kind = "validateToken"
    /\ response.result.expired
    /\ response.result.decoded.ok
    /\ response.result.error = Err(ExpiredMessage)

\* C22: in every result of comprehensiveTokenValidation, summary.isValid and
\* summary.isExpired are never both true, and for a correctly signed token
\* overallValid equals summary.isValid.
C22_ValidNeverExpired ==
    response.kind = "comprehensiveTokenValidation" =>
        LET r == response.result
        IN /\ ~(r.summary.isValid /\ r.summary.isExpired)
           /\ CorrectlySigned(response.req) => (r.overallValid <=> r.summary.isValid)

\* C23: for a correctly signed token evaluated at one instant,
\* validateTokenExpiration reports expired exactly when verifyToken fails as
\* expired, that is exactly when now >= exp * 1000; expiresIn is the whole
\* seconds left, never negative; isExpiringSoon holds exactly when between 0
\* and 3600000 ms are left, both excluded.
C23_ExpirationAgreesWithVerify ==
    response.kind = "validateTokenExpiration" /\ CorrectlySigned(response.req) =>
        LET r == response.result
            exp == JwtDecode(response.req).value.exp
            left == exp * 1000 - response.at
            v == verifyToken(response.req, response.at)
        IN /\ r.expired <=> (~v.ok /\ v.error = ExpiredMessage)
           /\ r.expired <=> response.at >= exp * 1000
           /\ r.expiresIn = Ok(IF left < 0 THEN 0 ELSE left \div 1000)
           /\ r.isExpiringSoon <=> (0 < left /\ left < 3600000)

\* validateTokenExpiration was called at the very instant a correctly signed
\* token expires
C23_Witness ==
    /\ response.kind = "validateTokenExpiration"
    /\ CorrectlySigned(response.req)
    /\ response.at = JwtDecode(response.req).value.exp * 1000
    /\ response.result.expired
    /\ response.result.expiresIn = Ok(0)

-----------------------------------------------------------------------------
(* Further properties of the service                                         *)

\* what GET /api/profile answered to a verified token, whose userId names
\* the stored user id (0 when there is none): either that user's profile with
\* the Aadhaar decrypted from that user's record, or an error without data;
\* notFound is the status of the answer when there is no such user
ProfileOfSubject(res, subject, id, notFound) ==
    /\ res.body.success =>
          /\ id # 0
          /\ res.status = 200
          /\ LET profile == res.body.data.profile
                 user == users[id]
             IN /\ profile._id = subject.userId
                /\ profile._id = IdToString(user._id)
                /\ profile.email = user.email
                /\ profile.name = user.name
                /\ Ok(profile.aadhaar) \in decrypt(user.encryptedAadhaar, aesKey)
    /\ ~res.body.success => DOMAIN res.body = {"success", "message"}
    /\ id = 0 => ~res.body.success /\ res.status = notFound

\* the stored user whose id the verified token names, 0 when there is none
SubjectId(subject) ==
    LET id == CastObjectId(subject.userId)
    IN IF id # 0 /\ id <= Len(users) THEN id ELSE 0

\* C24 as written: the profile GET /api/profile returns is the record whose
\* id equals the verified token's userId, with that record's Aadhaar; if no
\* such record exists the request fails with 404 and no Aadhaar is returned.
C24_ProfileOfSubjectOr404 ==
    [][(response' # response /\ response'.kind = "getProfile") =>
          LET a == authenticateToken(response'.req, now)
          IN IF a.ok
             THEN ProfileOfSubject(response', a.value, SubjectId(a.value), 404)
             ELSE ~response'.body.success /\ response'.status = 401]_vars

\* C24: the profile GET /api/profile returns is the record whose id equals
\* the verified token's userId, with that record's Aadhaar, whatever other
\* users do; if no such record exists the request fails without an Aadhaar,
\* with 404 when the userId is an ObjectId and with 400 when it is not.
C24_ProfileOfSubject ==
    [][(response' # response /\ response'.kind = "getProfile") =>
          LET a == authenticateToken(response'.req, now)
          IN IF a.ok
             THEN ProfileOfSubject(response', a.value, SubjectId(a.value),
                                   IF CastObjectId(a.value.userId) = 0 THEN 400 ELSE 404)
             ELSE ~response'.body.success /\ response'.status = 401]_vars

\* C24 witness: with two users stored, the second user's token was answered
\* with the second user's profile.
C24_Witness ==
    /\ Len(users) = 2
    /\ response.kind = "getProfile"
    /\ response.body.success
    /\ response.req = Bearer \o generateToken(IdToString(2), users[2].email,
                                              users[2].createdAt).value
    /\ response.body.data.profile._id = IdToString(2)
    /\ response.body.data.profile.email = users[2].email
    /\ users[1].email # users[2].email

\* the register request passes validation and names an email already stored
EmailAlreadyStored(coll, body) ==
    LET v == validateRegister(body)
    IN v.ok /\ \E i \in 1..Len(coll) : coll[i].email = NormalEmail(v.value.email)

\* C25: a (valid) registration request whose email is already stored is
\* always answered 400 'User with this email already exists', also when two
\* registrations of the email passed the existence check before either saved.
C25_DuplicateAlways400 ==
    [][(response' # response /\ response'.kind = "register"
            /\ EmailAlreadyStored(users, response'.req)) =>
          /\ response'.status = 400
          /\ response'.body.message = <<"User with this email already exists">>]_vars

-----------------------------------------------------------------------------
(* The service under any setting of JWT_EXPIRES_IN                           *)

\* JWT_EXPIRES_IN not set, or set to something the ms package does not read
\* as a timespan
ExpiresInSettings == {Undefined, Str(<<"1", "m", "o">>)}

InitConfigured ==
    /\ aesKey = ValidKey
    /\ jwtExpiresIn \in ExpiresInSettings
    /\ IdleCipher
    /\ IdleHash
    /\ IdleClock
    /\ IdleToken
    /\ IdleSystem

SpecConfigured == InitConfigured /\ [][Next]_vars

\* C26: whenever a register request ends in an error response (no token is
\* returned), no user record of that request has been stored.
C26_AllOrNothing ==
    [][(response' # response /\ response'.kind = "register"
            /\ ~TokenIssued(response')) => users' = users]_vars

-----------------------------------------------------------------------------
(* What a login tells about the stored emails                                *)

\* login requests an observer may send to find out which emails are stored
LoginProbes ==
    { [email |-> e, password |-> p] :
        e \in {EmailA, EmailB, Str(<<"c", "@", "x", ".", "z", "z">>)},
        p \in {GoodPassword, OtherPassword} }

\* the login request reaches the controller with a non-empty password, and
\* either its email is not stored or its password does not verify
Refused(coll, body) ==
    /\ validateLogin(body).ok
    /\ body.password # <<>>
    /\ ~LoginMatches(coll, body)

EmailStored(coll, email) == \E i \in 1..Len(coll) : coll[i].email = NormalEmail(email)

\* C27: a login with an unknown email and a login with a known email and a
\* wrong non-empty password are answered alike, with status 401 and the
\* message 'Invalid email or password'; nothing in the answer tells which of
\* the two it was.
C27_LoginHidesRegistration ==
    [][(response' # response /\ response'.kind = "login"
            /\ Refused(users, response'.req)) =>
          /\ response'.status = 401
          /\ response'.body = [success |-> FALSE,
                               message |-> <<"Invalid email or password">>]
          /\ \A other \in LoginProbes :
                Refused(users, other) =>
                    postLogin(users, other, now)
                        = [status |-> response'.status, body |-> response'.body]]_vars

\* C27 witness: a login for a stored email with a wrong password got the
\* answer that a login for an email not stored gets at the same moment.
C27_Witness ==
    /\ response.kind = "login"
    /\ response.req = [email |-> EmailA, password |-> OtherPassword]
    /\ EmailStored(users, EmailA)
    /\ Refused(users, response.req)
    /\ \E other \in LoginProbes :
          /\ ~EmailStored(users, other.email)
          /\ Refused(users, other)
          /\ postLogin(users, other, now) = [status |-> response.status,
                                             body |-> response.body]

-----------------------------------------------------------------------------
(* A further property of the token service                                   *)

\* C28: every token generateToken produces carries a non-empty userId claim
\* and a non-empty email claim, whatever arguments generateToken accepted.
C28_ClaimsNonEmpty ==
    (issued.by = "generateToken" /\ issued.result.ok) =>
        /\ IssuedClaims.userId # <<>>
        /\ IssuedClaims.email # <<>>

-----------------------------------------------------------------------------
(* The browser: services/api.js, services/authService.js and                 *)
(* context/AuthContext.jsx, talking to the service.  Here client is          *)
(* [storage, user, error]: localStorage's token and user items (NullValue    *)
(* when absent) and AuthContext's user and error states (Null, or Ok(v)).    *)

EmptyStorage == [token |-> NullValue, user |-> NullValue]

\* JSON.stringify(user), which getUser parses back
JSONStringify(user) == <<[t |-> "json", value |-> user]>>

\* no response was received
NetworkError == [status |-> 0]

\* the request interceptor: the Authorization header of the request
requestInterceptor(storage) ==
    IF Falsy(storage.token) THEN Undefined ELSE Bearer \o storage.token

\* the response interceptor: what it leaves in localStorage, and the body it
\* returns or the error it rejects with
responseInterceptor(storage, reply) ==
    IF reply.status \in 200..299
    THEN [storage |-> storage, result |-> Ok(reply.body)]
    ELSE IF reply = NetworkError
    THEN [storage |-> storage,
          result |-> Err(<<"Network error. Please check your connection.">>)]
    ELSE [storage |-> IF reply.status = 401 THEN EmptyStorage ELSE storage,
          result |-> Err(IF "message" \in DOMAIN reply.body /\ Len(reply.body.message) > 0
                         THEN reply.body.message
                         ELSE <<"An error occurred">>)]

\* response.data[field] is there and truthy
HasData(result, field) ==
    /\ result.ok
    /\ "data" \in DOMAIN result.value
    /\ field \in DOMAIN result.value.data

\* authService's login and register after the response: localStorage.setItem
\* of the token and the user
loginService(storage, result) ==
    IF HasData(result, "token") /\ ~Falsy(result.value.data.token)
    THEN [token |-> result.value.data.token,
          user |-> JSONStringify(result.value.data.user)]
    ELSE storage

\* AuthContext's login and register, given the reply to the request
AuthContextLogin(c, reply, failed) ==
    LET i == responseInterceptor(c.storage, reply)
        stored == loginService(i.storage, i.result)
    IN IF HasData(i.result, "user")
       THEN [storage |-> stored, user |-> Ok(i.result.value.data.user), error |-> Null]
       ELSE [storage |-> stored, user |-> Null,
             error |-> Ok(IF i.result.ok THEN <<failed>> ELSE i.result.error)]

\* AuthContext's logout
AuthContextLogout(c) == [storage |-> EmptyStorage, user |-> Null, error |-> Null]

\* AuthContext's fetchProfile, given the reply to GET /profile
fetchProfile(c, reply) ==
    LET i == responseInterceptor(c.storage, reply)
    IN IF HasData(i.result, "profile")
       THEN [storage |-> i.storage, user |-> Ok(i.result.value.data.profile),
             error |-> Null]
       ELSE [storage |-> i.storage, user |-> c.user,
             error |-> Ok(IF i.result.ok THEN <<"Failed to fetch profile">>
                          ELSE i.result.error)]

\* AuthContext's checkAuth, given the reply to GET /profile (which is sent
\* only if localStorage has a user)
checkAuth(c, reply) ==
    IF Falsy(c.storage.user) THEN [c EXCEPT !.user = Null, !.error = Null]
    ELSE LET i == responseInterceptor(c.storage, reply)
         IN IF HasData(i.result, "profile")
            THEN [storage |-> i.storage, user |-> Ok(i.result.value.data.profile),
                  error |-> Null]
            ELSE [storage |-> EmptyStorage, user |-> Null, error |-> Null]

\* the service's answers to POST /auth/login
LoginReplies(body) == {postLogin(users, body, now), NetworkError}

\* the service's answers to GET /profile with the header the request
\* interceptor adds
ProfileReplies ==
    LET a == authenticateToken(requestInterceptor(client.storage), now)
    IN (IF a.ok THEN getProfile(users, a.value, aesKey) ELSE {errorHandler(a)})
           \cup {NetworkError}

InitClient ==
    /\ aesKey = ValidKey
    /\ jwtExpiresIn = Undefined
    /\ IdleCipher
    /\ IdleHash
    /\ IdleClock
    /\ issued = [by |-> "none", result |-> NotCalled]
    /\ verified = [at |-> 0, result |-> NotCalled]
    /\ seen = {}
    /\ decodedToken = [token |-> <<>>, result |-> NotCalled]
    /\ client = [storage |-> EmptyStorage, user |-> Null, error |-> Null]
    /\ IdleSystem

\* the page loads: AuthProvider mounts with user = null and runs checkAuth
CheckAuth ==
    /\ \E reply \in ProfileReplies :
          /\ client' = checkAuth([client EXCEPT !.user = Null, !.error = Null], reply)
          /\ response' = [kind |-> "checkAuth", reply |-> reply]
    /\ UNCHANGED <<aesKey, jwtExpiresIn, cipherVars, hashVars, clockVars, issued, verified,
                   seen, decodedToken, users, pending>>

\* the service's answers to POST /auth/register, each with the users
\* collection it leaves: validation, createUser and register, or no answer
RegisterReplies(rawBody, salt, iv) ==
    { IF ~v.ok THEN [reply |-> errorHandler(v), users |-> users]
      ELSE CHOOSE r \in
             { IF ~c.ok THEN [reply |-> errorHandler(c), users |-> users]
               ELSE CHOOSE q \in
                      { IF saved.ok
                        THEN [reply |-> register(createUserSave(users, c.value, now).value,
                                                 now),
                              users |-> Append(users, saved.value)]
                        ELSE [reply |-> errorHandler(createUserSave(users, c.value, now)),
                              users |-> users] :
                          saved \in {saveNew(users, c.value, now)} } : TRUE :
                 c \in {createUserPrepare(users, v.value, salt, iv, aesKey)} } : TRUE :
        v \in {validateRegister(rawBody)} }
        \cup {[reply |-> NetworkError, users |-> users]}

\* the user submits the registration form; the service handles the request
\* from validation to the response
ContextRegister ==
    /\ Len(users) < MaxUsers
    /\ \E rawBody \in RegisterBodies,
          salt \in {CHOOSE x \in Salts : TRUE},
          iv \in {CHOOSE x \in RandomIVs : TRUE} :
          \E answer \in RegisterReplies(rawBody, salt, iv) :
              /\ users' = answer.users
              /\ client' = AuthContextLogin(client, answer.reply,
                                            "Registration failed: Invalid response")
              /\ response' = [kind |-> "register", reply |-> answer.reply]
    /\ UNCHANGED <<aesKey, jwtExpiresIn, cipherVars, hashVars, clockVars, issued, verified,
                   seen, decodedToken, pending>>

\* the user submits the login form
ContextLogin ==
    /\ \E rawBody \in LoginBodies : \E reply \in LoginReplies(rawBody) :
          /\ client' = AuthContextLogin(client, reply, "Login failed: Invalid response")
          /\ response' = [kind |-> "login", reply |-> reply]
    /\ UNCHANGED <<aesKey, jwtExpiresIn, cipherVars, hashVars, clockVars, issued, verified,
                   seen, decodedToken, users, pending>>

ContextLogout ==
    /\ client' = AuthContextLogout(client)
    /\ response' = [kind |-> "logout"]
    /\ UNCHANGED <<aesKey, jwtExpiresIn, cipherVars, hashVars, clockVars, issued, verified,
                   seen, decodedToken, users, pending>>

\* a page asks for the profile
FetchProfile ==
    /\ \E reply \in ProfileReplies :
          /\ client' = fetchProfile(client, reply)
          /\ response' = [kind |-> "fetchProfile", reply |-> reply]
    /\ UNCHANGED <<aesKey, jwtExpiresIn, cipherVars, hashVars, clockVars, issued, verified,
                   seen, decodedToken, users, pending>>

NextClient ==
    \/ TickSystem
    \/ CheckAuth
    \/ ContextRegister
    \/ ContextLogin
    \/ ContextLogout
    \/ FetchProfile

SpecClient == InitClient /\ [][NextClient]_vars

\* C29: whenever AuthContext reports isAuthenticated (its user is not null),
\* localStorage holds a token.
C29_AuthenticatedHasToken ==
    client.user # Null => ~Falsy(client.storage.token)

====
